---------------------------- MODULE Spec2Model ----------------------------
(***************************************************************************)
(* DucksGather: the scrape / sanitize / validate / de-duplicate pipeline   *)
(* and the web API on the events and users tables.                         *)
(*                                                                         *)
(*   backend/src/scraper/scraper.py        fetch_html, parse_listing,      *)
(*                                         process_and_validate, crawl     *)
(*   backend/src/sanitize/sanitize.py      normalize_whitespace, clip,     *)
(*                                         clean_html                      *)
(*   backend/src/sanitize/schemas.py       EventCreate                     *)
(*   backend/src/sanitize/duplicate_check.py                               *)
(*   backend/src/auth/jwt.py               require_app_user                *)
(*   backend/src/routes/events.py          create, update, delete, save,   *)
(*                                         unsave of an event              *)
(*   backend/src/routes/users.py           set_role                        *)
(*   backend/src/models/models.py          the tables and their checks     *)
(*                                                                         *)
(* The state machines share the pure functions:                           *)
(*   SpecCrawl     one run of crawl(url, out_csv)                          *)
(*   SpecIngest    a sequence of ingestion runs against the events table   *)
(*   SpecRace      two ingestion runs that interleave                      *)
(*   SpecValidate  one call of process_and_validate                        *)
(*   SpecParse     one call of parse_listing                               *)
(*   SpecDup       repeated duplicate checks against a stored table        *)
(*   SpecApi       a sequence of requests to the web API                   *)
(***************************************************************************)
EXTENDS Integers, Sequences, FiniteSets, TLC

(***************************************************************************)
(* Python values.  Every value is a record [t, s, d]: t is the Python      *)
(* type, s a tuple of one-character strings (the text of a str, the        *)
(* decimal digits of an int), d a tuple of integers (the fields of a       *)
(* timestamp).  A str that is read as a timestamp keeps its parsed form    *)
(* in d and its syntactic class in s, see DStr below.                      *)
(***************************************************************************)
None == [t |-> "NoneType", s |-> <<>>, d |-> <<>>]

Str(chars) == [t |-> "str", s |-> chars, d |-> <<>>]

PyInt(digits) == [t |-> "int", s |-> digits, d |-> <<>>]

PyFloat(text) == [t |-> "float", s |-> text, d |-> <<>>]

PyList(items) == [t |-> "list", s |-> items, d |-> <<>>]

PyDict(keys) == [t |-> "dict", s |-> keys, d |-> <<>>]

\* A str holding a timestamp.  form is one of
\*   "date"   YYYY-MM-DD                        (10 characters)
\*   "aware"  YYYY-MM-DDTHH:MM:SS+HH:MM         (25 characters)
\*   "naive"  YYYY-MM-DDTHH:MM:SS               (19 characters)
\*   "junk10" 10 characters that are no date,  "junk" any other text
\* day counts calendar days, sec the seconds into the day, off the UTC
\* offset in seconds.
DStr(form, day, sec, off) == [t |-> "str", s |-> <<form>>, d |-> <<day, sec, off>>]

DateTime(aware, day, sec, off) ==
    [t |-> "datetime", s |-> <<IF aware THEN "aware" ELSE "naive">>, d |-> <<day, sec, off>>]

IsStr(v) == v.t = "str"

IsDStr(v) == v.t = "str" /\ v.d # <<>>

\* Python truthiness: None, "", 0, [] and {} are falsy.
Truthy(v) ==
    CASE v.t = "NoneType" -> FALSE
      [] v.t = "int"      -> v.s # <<"0">>
      [] OTHER            -> v.s # <<>>

\* len(s) of a str
StrLen(v) ==
    IF v.d = <<>> THEN Len(v.s)
    ELSE CASE v.s[1] \in {"date", "junk10"} -> 10
           [] v.s[1] = "aware"              -> 25
           [] v.s[1] = "naive"              -> 19
           [] OTHER                         -> 4

(***************************************************************************)
(* sanitize.py                                                             *)
(***************************************************************************)
IsSpace(c) == c \in {" ", "\t", "\n"}

RECURSIVE Concat(_, _, _)
\* The pieces lo to hi of a sequence of texts, joined.
Concat(pieces, lo, hi) ==
    IF lo > hi THEN <<>>
    ELSE IF lo = hi THEN pieces[lo]
    ELSE Concat(pieces, lo, (lo + hi) \div 2) \o Concat(pieces, (lo + hi) \div 2 + 1, hi)

\* " ".join(s.split()): a character of a word stays; of a run of blanks
\* between two words the first becomes the separator; every other blank goes.
SplitJoin(chars) ==
    Concat([i \in 1..Len(chars) |->
               IF ~IsSpace(chars[i]) THEN <<chars[i]>>
               ELSE IF /\ i > 1
                       /\ ~IsSpace(chars[i - 1])
                       /\ \E j \in (i + 1)..Len(chars) : ~IsSpace(chars[j])
                    THEN <<" ">>
                    ELSE <<>>],
           1, Len(chars))

RECURSIVE LStrip(_)
LStrip(chars) ==
    IF chars # <<>> /\ IsSpace(Head(chars)) THEN LStrip(Tail(chars)) ELSE chars

RECURSIVE RStrip(_)
RStrip(chars) ==
    IF chars # <<>> /\ IsSpace(chars[Len(chars)])
    THEN RStrip(SubSeq(chars, 1, Len(chars) - 1))
    ELSE chars

\* str.strip()
Strip(chars) == RStrip(LStrip(chars))

\* The element of a set of one element.  Only({F(x) : x \in {v}}) is F(v)
\* with v evaluated once.
Only(S) == CHOOSE y \in S : TRUE

\* The outcome of a call: a value returned, or the class of the exception raised.
Ret(v) == [exc |-> "", val |-> v]

Raise(cls) == [exc |-> cls, val |-> None]

\* unicodedata.normalize("NFKC", s).  The alphabet is ASCII and one
\* compatibility character, written "fi": U+FB01, the ligature, which NFKC
\* replaces by the two letters f and i.
NFKC(chars) ==
    Concat([i \in 1..Len(chars) |-> IF chars[i] = "fi" THEN <<"f", "i">> ELSE <<chars[i]>>],
           1, Len(chars))

\* normalize_whitespace(s).  unicodedata.normalize raises TypeError on a
\* value that is not a str.
normalize_whitespace(v) ==
    IF v.t = "NoneType" THEN Ret(None)
    ELSE IF ~IsStr(v) THEN Raise("TypeError")
    ELSE IF IsDStr(v) THEN Ret(v)
    ELSE Ret(Str(Only({SplitJoin(normalized) : normalized \in {NFKC(v.s)}})))

\* A wrong clip: nothing is cut.
clip_nothing(v, maxlen) ==
    IF v.t = "NoneType" THEN Ret(None)
    ELSE IF v.t \in {"int", "float", "dict"} THEN Raise("TypeError")
    ELSE Ret(v)

\* clip(s, maxlen): s[:maxlen]; an int or a dict cannot be sliced.
clip(v, maxlen) ==
    IF v.t = "NoneType" THEN Ret(None)
    ELSE IF v.t \in {"int", "float", "dict"} THEN Raise("TypeError")
    ELSE IF IsDStr(v) THEN Ret(v)
    ELSE Ret([v EXCEPT !.s = SubSeq(v.s, 1, IF Len(v.s) < maxlen THEN Len(v.s) ELSE maxlen)])

\* The place of the last "<" or ">" before place k, 0 when there is none.
PrevAngle(chars, k) ==
    IF \E i \in 1..(k - 1) : chars[i] \in {"<", ">"}
    THEN CHOOSE i \in 1..(k - 1) :
             /\ chars[i] \in {"<", ">"}
             /\ \A j \in (i + 1)..(k - 1) : chars[j] \notin {"<", ">"}
    ELSE 0

\* The place of the first "<" or ">" after place k, 0 when there is none.
NextAngle(chars, k) ==
    IF \E i \in (k + 1)..Len(chars) : chars[i] \in {"<", ">"}
    THEN CHOOSE i \in (k + 1)..Len(chars) :
             /\ chars[i] \in {"<", ">"}
             /\ \A j \in (k + 1)..(i - 1) : chars[j] \notin {"<", ">"}
    ELSE 0

\* Whether a tag "<...>" starts at place k: the "<" is followed by a name
\* and closed by a ">" before any other "<".
OpensTag(chars, k) ==
    /\ k >= 1
    /\ chars[k] = "<"
    /\ NextAngle(chars, k) > k + 1
    /\ chars[NextAngle(chars, k)] = ">"
    /\ ~IsSpace(chars[k + 1])

\* bleach.clean(text, tags=[], attributes={}, strip=True): a tag "<...>" is
\* removed; a "<" that opens no tag and a stray ">" are escaped to the
\* entities &lt; and &gt;.
BleachStrip(chars) ==
    Concat([k \in 1..Len(chars) |->
               IF chars[k] = "<"
               THEN IF OpensTag(chars, k) THEN <<>> ELSE <<"&", "l", "t", ";">>
               ELSE IF OpensTag(chars, PrevAngle(chars, k)) THEN <<>>
               ELSE IF chars[k] = ">" THEN <<"&", "g", "t", ";">>
               ELSE <<chars[k]>>],
           1, Len(chars))

\* is_future_event(start_at), with now_utc the current UTC date:
\* datetime.fromisoformat of a value that is no str raises TypeError.
is_future_event(start_at, now_utc) ==
    IF ~Truthy(start_at) THEN Ret(FALSE)
    ELSE IF ~IsStr(start_at) THEN Raise("TypeError")
    ELSE IF ~IsDStr(start_at) \/ start_at.s[1] \notin {"date", "aware", "naive"} THEN Ret(FALSE)
    ELSE IF start_at.s[1] = "aware"
         THEN Ret((start_at.d[1] * 86400 + start_at.d[2] - start_at.d[3]) \div 86400 >= now_utc)
         ELSE Ret(start_at.d[1] >= now_utc)

\* clean_html(s)
clean_html(v) ==
    IF ~Truthy(v) THEN Ret(v)
    ELSE IF ~IsStr(v) THEN Raise("TypeError")
    ELSE IF IsDStr(v) THEN Ret(v)
    ELSE Only({normalize_whitespace(Str(cleaned_text)) : cleaned_text \in {BleachStrip(v.s)}})

(***************************************************************************)
(* schemas.py: EventCreate.  Field limits as declared by the model.        *)
(***************************************************************************)
TITLE_MAX == 100

\* The character class of SAFE_TITLE, over the alphabet of the model.
SafeChars ==
    {"a", "b", "f", "i", "A", "B", "0", "1", "7", " ", "\t", "\n",
     "-", ".", ",", "'", "(", ")", "&", "!", "?", ":", "%", "+", "/", "#"}

\* SAFE_TITLE.match(chars)
SAFE_TITLE(chars) ==
    /\ Len(chars) >= 1
    /\ Len(chars) <= TITLE_MAX
    /\ \A i \in 1..Len(chars) : chars[i] \in SafeChars

DESCRIPTION_MAX == 1000

LOCATION_MAX == 200

ADDRESS_MAX == 100

\* The order Python gives two datetimes: aware ones by instant, naive ones
\* by wall clock.
Instant(dt) ==
    IF dt.s[1] = "aware" THEN dt.d[1] * 86400 + dt.d[2] - dt.d[3]
    ELSE dt.d[1] * 86400 + dt.d[2]

RECURSIVE DigitsValue(_, _)
DigitsValue(digits, acc) ==
    IF digits = <<>> THEN acc
    ELSE DigitsValue(Tail(digits),
                     acc * 10 + (CHOOSE n \in 0..9 : ToString(n) = Head(digits)))

\* pydantic's datetime field: an ISO string, a date string (midnight) or a
\* unix timestamp in seconds (up to nine digits here) becomes a datetime;
\* everything else is an error.
\* Returns <<ok, datetime>>.
ParseDatetime(v) ==
    CASE IsDStr(v) /\ v.s[1] = "aware" -> <<TRUE, DateTime(TRUE, v.d[1], v.d[2], v.d[3])>>
      [] IsDStr(v) /\ v.s[1] = "naive" -> <<TRUE, DateTime(FALSE, v.d[1], v.d[2], 0)>>
      [] IsDStr(v) /\ v.s[1] = "date"  -> <<TRUE, DateTime(FALSE, v.d[1], 0, 0)>>
      [] v.t = "int" /\ Len(v.s) <= 9 ->
            LET n == DigitsValue(v.s, 0)
            IN  <<TRUE, DateTime(TRUE, n \div 86400, n % 86400, 0)>>
      [] v.t = "datetime"              -> <<TRUE, v>>
      [] OTHER                         -> <<FALSE, None>>

\* A str field with max_length (and min_length); None is not a str.
StrFieldOk(v, minlen, maxlen) ==
    IsStr(v) /\ StrLen(v) >= minlen /\ StrLen(v) <= maxlen

\* A wrong validator: the check of line 33 left out.
title_checks_no_angle(stripped) ==
    IF stripped = <<>> THEN <<FALSE, Str(stripped)>>
    ELSE IF Len(stripped) > TITLE_MAX THEN <<FALSE, Str(stripped)>>
    ELSE <<TRUE, Str(stripped)>>

\* EventCreate.title_chars, run on a title that passed the Field limits:
\* v = v.strip() and the three checks.  Returns <<ok, title>>.
title_checks(stripped) ==
    IF stripped = <<>> THEN <<FALSE, Str(stripped)>>
    ELSE IF Len(stripped) > TITLE_MAX THEN <<FALSE, Str(stripped)>>
    ELSE IF \E i \in 1..Len(stripped) : stripped[i] \in {"<", ">"} THEN <<FALSE, Str(stripped)>>
    ELSE <<TRUE, Str(stripped)>>

title_chars(v) == title_checks(Strip(v.s))

\* EventCreate.ends_after_start(v, info): "ok", "ValueError", or "TypeError"
\* when Python refuses to order an aware and a naive datetime.
ends_after_start(v, startOk, start_at) ==
    IF ~startOk THEN "ok"
    ELSE IF v.s[1] # start_at.s[1] THEN "TypeError"
    ELSE IF Instant(v) <= Instant(start_at) THEN "ValueError"
    ELSE "ok"

\* AnyUrl | None: a scheme, a colon and something after it.
IsUrl(v) ==
    /\ IsStr(v) /\ ~IsDStr(v)
    /\ Len(v.s) >= 3
    /\ v.s[1] \in {"h", "m"}
    /\ v.s[2] = ":"
    /\ \A i \in 1..Len(v.s) : ~IsSpace(v.s[i])

UrlFieldOk(v) == v.t = "NoneType" \/ IsUrl(v)

FloatFieldOk(v) == v.t \in {"NoneType", "float"}

\* title: str = Field("", min_length=1, max_length=100), then title_chars
TitleField(v) ==
    IF StrFieldOk(v, 1, TITLE_MAX) /\ ~IsDStr(v) THEN title_chars(v) ELSE <<FALSE, v>>

\* ends_at: datetime, then ends_after_start
EndsOrder(ends, start) ==
    IF ends[1] THEN ends_after_start(ends[2], start[1], start[2]) ELSE "ok"

\* The verdict over all fields.  A TypeError raised inside a validator is
\* not turned into a ValidationError.
Verdict(inp, title, start, ends, order) ==
    IF order = "TypeError" THEN Raise("TypeError")
    ELSE IF /\ title[1] /\ start[1] /\ ends[1] /\ order = "ok"
            /\ StrFieldOk(inp.description, 0, DESCRIPTION_MAX)
            /\ StrFieldOk(inp.location, 0, LOCATION_MAX)
            /\ StrFieldOk(inp.address, 0, ADDRESS_MAX)
            /\ UrlFieldOk(inp.website) /\ UrlFieldOk(inp.image)
            /\ FloatFieldOk(inp.latitude) /\ FloatFieldOk(inp.longitude)
    THEN Ret([inp EXCEPT !.title = title[2], !.start_at = start[2], !.ends_at = ends[2]])
    ELSE Raise("ValidationError")

Validate(inp, title, start, ends) == Verdict(inp, title, start, ends, EndsOrder(ends, start))

\* EventCreate(**validated_input) followed by model_dump(): the dumped
\* record, or the exception raised.
EventCreate(inp) ==
    Only({Validate(inp, title, start, ends) :
              title \in {TitleField(inp.title)},
              start \in {ParseDatetime(inp.start_at)},
              ends \in {ParseDatetime(inp.ends_at)}})

(***************************************************************************)
(* scraper.py: parse_listing                                               *)
(*                                                                         *)
(* A page is the sequence of its <script type="application/ld+json"> tags. *)
(* A tag is [text, items]: text is "none" (script_tag.string is empty),    *)
(* "bad" (json.loads raises JSONDecodeError), "list", "dict" or "scalar";  *)
(* items are the JSON values of the list, or the one dict.  A JSON object  *)
(* is a record of its keys, each a Python value or Absent; the nested      *)
(* location object is flattened into location (the value under "location", *)
(* PyDict when it is an object), loc_name, loc_address, geo (the value     *)
(* under "geo"), geo_lat and geo_lon.  An item that is no object has       *)
(* type = NotDict.                                                         *)
(***************************************************************************)
Absent == [t |-> "absent", s |-> <<>>, d |-> <<>>]

NotDict == [t |-> "notdict", s |-> <<>>, d |-> <<>>]

\* dict.get(key, default)
Get(v, default) == IF v.t = "absent" THEN default ELSE v

EmptyStr == Str(<<>>)

EmptyDict == PyDict(<<>>)

\* urllib.parse.urljoin(base, url): base when url is falsy, TypeError when
\* url is no str, url itself when it carries a scheme, else url resolved
\* against the scheme and host of base (its first two characters here).
urljoin(base, url) ==
    IF ~Truthy(url) THEN Ret(base)
    ELSE IF ~IsStr(url) THEN Raise("TypeError")
    ELSE IF Len(url.s) >= 2 /\ url.s[2] = ":" THEN Ret(url)
    ELSE IF url.s[1] = "/" THEN Ret(Str(<<base.s[1], base.s[2]>> \o url.s))
    ELSE Ret(Str(<<base.s[1], base.s[2], "/">> \o url.s))

\* Lines 113-155: one item of a block.  Returns the rows it adds (none or
\* one), or the exception it raises.
ParseItem(event, base_url) ==
    IF event.type = NotDict \/ Get(event.type, None) # Str(<<"Event">>) THEN Ret(<<>>)
    ELSE
        LET website  == urljoin(base_url, Get(event.url, EmptyStr))
            location == Get(event.location, EmptyDict)
            \* the keys of the flattened objects exist only inside them
            inLoc(v) == IF event.location.t = "dict" THEN v ELSE Absent
            geo      == Get(inLoc(event.geo), EmptyDict)
            inGeo(v) == IF inLoc(event.geo).t = "dict" THEN v ELSE Absent
        IN  IF website.exc # "" THEN website
            \* line 139: location.get("geo", {}) on a value that is no dict
            ELSE IF location.t # "dict" THEN Raise("AttributeError")
            ELSE Ret(<< [title       |-> Get(event.name, EmptyStr),
                         start_at    |-> Get(event.startDate, EmptyStr),
                         ends_at     |-> Get(event.endDate, EmptyStr),
                         location    |-> Get(inLoc(event.loc_name), EmptyStr),
                         address     |-> Get(inLoc(event.loc_address), EmptyStr),
                         latitude    |-> IF geo.t = "dict"
                                         THEN Get(inGeo(event.geo_lat), EmptyStr) ELSE EmptyStr,
                         longitude   |-> IF geo.t = "dict"
                                         THEN Get(inGeo(event.geo_lon), EmptyStr) ELSE EmptyStr,
                         description |-> Get(event.description, EmptyStr),
                         image       |-> Get(event.image, EmptyStr),
                         website     |-> website.val] >>)

RECURSIVE ParseItems(_, _, _)
\* The loop over the items of one block: [exc, rows]
ParseItems(items, base_url, rows) ==
    IF items = <<>> THEN [exc |-> "", rows |-> rows]
    ELSE LET r == ParseItem(Head(items), base_url)
         IN  IF r.exc # "" THEN [exc |-> r.exc, rows |-> rows]
             ELSE ParseItems(Tail(items), base_url, rows \o r.val)

RECURSIVE ParseScripts(_, _, _)
\* A wrong loop: a block that is no JSON ends it.
ParseScripts_stop(scripts, base_url, rows) ==
    IF scripts = <<>> \/ Head(scripts).text = "bad" THEN [exc |-> "", rows |-> rows]
    ELSE LET tag == Head(scripts)
         IN  IF tag.text \in {"none", "scalar"}
             THEN ParseScripts(Tail(scripts), base_url, rows)
             ELSE LET r == ParseItems(tag.items, base_url, rows)
                  IN  IF r.exc # "" THEN r
                      ELSE ParseScripts(Tail(scripts), base_url, r.rows)

\* The loop over the script tags, lines 97-159.
ParseScripts(scripts, base_url, rows) ==
    IF scripts = <<>> THEN [exc |-> "", rows |-> rows]
    ELSE LET tag == Head(scripts)
         IN  IF tag.text \in {"none", "bad", "scalar"}
             THEN ParseScripts(Tail(scripts), base_url, rows)
             ELSE LET r == ParseItems(tag.items, base_url, rows)
                  IN  IF r.exc # "" THEN r
                      ELSE ParseScripts(Tail(scripts), base_url, r.rows)

\* parse_listing(html, base_url): [exc, rows]
parse_listing(html, base_url) == ParseScripts(html, base_url, <<>>)

(***************************************************************************)
(* scraper.py: process_and_validate                                        *)
(***************************************************************************)
\* sys.float_info.max is about 1.8e308: float(n) raises OverflowError for an
\* int n of more decimal digits than this.
FLOAT_MAX_DIGITS == 309

Digits == {"0", "1", "2", "3", "4", "5", "6", "7", "8", "9"}

\* Whether float(text) parses: [-]digits[.digits] between optional blanks.
IsFloatText(chars) ==
    LET c == Strip(chars)
    IN  /\ c # <<>>
        /\ \A i \in 1..Len(c) : c[i] \in Digits \cup {".", "-"}
        /\ \E i \in 1..Len(c) : c[i] \in Digits
        /\ \A i \in 2..Len(c) : c[i] # "-"
        /\ Cardinality({i \in 1..Len(c) : c[i] = "."}) <= 1

\* Lines 287-297: one coordinate.
Coordinate(raw) ==
    IF raw.t = "NoneType" \/ raw = EmptyStr THEN Ret(None)
    ELSE IF raw.t = "float" THEN Ret(raw)
    ELSE IF raw.t = "int" THEN
        IF Len(raw.s) > FLOAT_MAX_DIGITS THEN Raise("OverflowError") ELSE Ret(PyFloat(raw.s))
    ELSE IF IsStr(raw) /\ ~IsDStr(raw) /\ IsFloatText(raw.s) THEN Ret(PyFloat(Strip(raw.s)))
    \* float(str(raw_value)) raised ValueError or TypeError
    ELSE Ret(None)

\* Lines 278-284: location and address.
EmptyToNone(cleaned) == IF cleaned = EmptyStr \/ cleaned = None THEN None ELSE cleaned

LocationField(raw) ==
    IF IsStr(raw) THEN EmptyToNone(normalize_whitespace(raw).val) ELSE raw

\* A wrong expansion: the end of a bare date gets midnight too.
ExpandDate_midnight(v, sec) ==
    IF IsStr(v) /\ StrLen(v) = 10 THEN
        IF IsDStr(v) /\ v.s[1] = "date" THEN DStr("aware", v.d[1], 0, -28800)
        ELSE DStr("junk", 0, 0, 0)
    ELSE v

\* Lines 260-265: a bare date gets the end (start) of its day at -08:00.
\* Appending a time to ten characters that are no date gives no timestamp.
ExpandDate(v, sec) ==
    IF IsStr(v) /\ StrLen(v) = 10 THEN
        IF IsDStr(v) /\ v.s[1] = "date" THEN DStr("aware", v.d[1], sec, -28800)
        ELSE DStr("junk", 0, 0, 0)
    ELSE v

OrNone(v) == IF Truthy(v) THEN v ELSE None

\* The exceptions the except clause of line 316 catches.
Caught == {"ValidationError", "ValueError", "TypeError"}

\* Apply f's successor only to a value that was returned.
ThenClip(res) == IF res.exc = "" THEN clip(res.val, DESCRIPTION_MAX) ELSE res

ThenNormalize(res) == IF res.exc = "" THEN normalize_whitespace(res.val) ELSE res

\* Lines 244-247
final_description(event_data) ==
    Only({ThenNormalize(clipped) :
              clipped \in {ThenClip(cleaned) : cleaned \in {clean_html(event_data.description)}}})

\* The statements of lines 244-297 that can raise, in order: the
\* description, the title (249, 254), the location (255), the coordinates.
Steps(event_data) ==
    << final_description(event_data),
       normalize_whitespace(event_data.title),
       normalize_whitespace(event_data.location),
       Coordinate(event_data.latitude),
       Coordinate(event_data.longitude) >>

\* The exception of the first step that raised, "" when none did.
FirstExc(steps) ==
    IF \A i \in 1..Len(steps) : steps[i].exc = "" THEN ""
    ELSE steps[CHOOSE i \in 1..Len(steps) :
                   steps[i].exc # "" /\ \A j \in 1..(i - 1) : steps[j].exc = ""].exc

\* Lines 268-297
validated_input(event_data, steps) ==
    [title       |-> steps[2].val,
     description |-> steps[1].val,
     start_at    |-> OrNone(ExpandDate(event_data.start_at, 0)),
     ends_at     |-> OrNone(ExpandDate(event_data.ends_at, 86399)),
     website     |-> OrNone(event_data.website),
     image       |-> OrNone(event_data.image),
     location    |-> LocationField(event_data.location),
     address     |-> LocationField(event_data.address),
     latitude    |-> steps[4].val,
     longitude   |-> steps[5].val]

\* Lines 316-318: the exceptions named there give None, any other escapes.
Except(exc) == IF exc \in Caught THEN Ret(None) ELSE Raise(exc)

Validated(validated_model) ==
    IF validated_model.exc = "" THEN validated_model ELSE Except(validated_model.exc)

TryBody(event_data, steps, exc) ==
    IF exc # "" THEN Except(exc)
    ELSE Only({Validated(validated_model) :
                   validated_model \in {EventCreate(inp) :
                                            inp \in {validated_input(event_data, steps)}}})

Try(event_data, steps) == TryBody(event_data, steps, FirstExc(steps))

\* process_and_validate(event_data): Ret(dict), Ret(None), or the exception
\* that escapes it.
process_and_validate(event_data) ==
    Only({Try(event_data, steps) : steps \in {Steps(event_data)}})

(***************************************************************************)
(* scraper.py: fetch_html and its retry decorator                          *)
(*                                                                         *)
(* The answer to one requests.get is [k, code, html]: k = "ok" is an HTTP  *)
(* response with its status code and page, k = "neterr" a connection error *)
(* or timeout.                                                             *)
(***************************************************************************)
MAX_PAGES == 10

STOP_AFTER_ATTEMPT == 5

\* The exception classes in play and their base classes.
Bases(cls) ==
    CASE cls = "HTTPError"        -> {"HTTPError", "RequestException", "Exception"}
      [] cls = "ConnectionError"  -> {"ConnectionError", "RequestException", "Exception"}
      [] OTHER                    -> {cls, "Exception"}

IsInstance(cls, base) == base \in Bases(cls)

\* Lines 80-82: what one attempt of the function body raises ("" = returns).
\* resp.raise_for_status() raises HTTPError for a 4xx or 5xx status.
fetch_attempt(resp) ==
    IF resp.k = "neterr" THEN "ConnectionError"
    ELSE IF resp.code >= 400 /\ resp.code < 600 THEN "HTTPError"
    ELSE ""

\* retry=retry_if_exception_type((requests.RequestException,))
retry_if_exception_type(cls) == IsInstance(cls, "RequestException")

\* A wrong stop condition: one attempt too many.
stop_after_attempt_exclusive(attempt_number) == attempt_number > STOP_AFTER_ATTEMPT

\* A wrong stop condition: never give up.
stop_after_attempt_never(attempt_number) == FALSE

\* stop=stop_after_attempt(5)
stop_after_attempt(attempt_number) == attempt_number >= STOP_AFTER_ATTEMPT

\* The decorator after attempt number n raised cls (or returned, cls = ""):
\* "return", "retry", or the class of the exception fetch_html raises.  With
\* reraise left at its default, exhausted attempts raise tenacity.RetryError.
fetch_html(cls, n) ==
    IF cls = "" THEN "return"
    ELSE IF ~retry_if_exception_type(cls) THEN cls
    ELSE IF stop_after_attempt(n) THEN "RetryError"
    ELSE "retry"

(***************************************************************************)
(* scraper.py: crawl                                                       *)
(***************************************************************************)
\* Lines 375-381 and 401-404: where an exception raised by fetch_html ends
\* the run.  "http404" is the break of line 378, "fatal" the handler of
\* line 401, "unexpected" the handler of line 403.
crawl_except(cls, code) ==
    IF IsInstance(cls, "HTTPError") /\ code = 404 THEN "http404"
    ELSE IF IsInstance(cls, "RequestException") THEN "fatal"
    ELSE "unexpected"

\* A wrong loop bound: range(1, MAX_PAGES + 2).
last_page_inclusive(page) == page > MAX_PAGES

\* Line 364: range(1, MAX_PAGES + 1) is exhausted after this page.
last_page(page) == page >= MAX_PAGES

\* Lines 365-368
base_url == Str(<<"h", ":", "/", "/", "u">>)

current_url(page) ==
    IF page = 1 THEN base_url ELSE Str(base_url.s \o <<"/", "c", "/", ToString(page)>>)

\* A wrong page test: an empty page does not end the pagination.
no_events_never(rows) == FALSE

\* Line 385: if not events_on_page
no_events(rows) == rows = <<>>

\* A wrong writer: the first record is taken for the header.
write_csv_skip_first(validated, io) ==
    IF validated = <<>> THEN [written |-> FALSE, rows |-> <<>>, error |-> ""]
    ELSE IF io = "IOError" THEN [written |-> FALSE, rows |-> <<>>, error |-> "IOError"]
    ELSE [written |-> TRUE, rows |-> Tail(validated), error |-> ""]

\* Lines 408-425: what the run leaves in out_csv.  No rows, no file; an
\* IOError is reported and leaves no usable file.
write_csv(validated, io) ==
    IF validated = <<>> THEN [written |-> FALSE, rows |-> <<>>, error |-> ""]
    ELSE IF io = "IOError" THEN [written |-> FALSE, rows |-> <<>>, error |-> "IOError"]
    ELSE [written |-> TRUE, rows |-> validated, error |-> ""]

(***************************************************************************)
(* duplicate_check.py.  The events table is the sequence of its rows, in   *)
(* insertion order; a candidate event is a record with a title key.        *)
(***************************************************************************)
Range(seq) == {seq[i] : i \in 1..Len(seq)}

\* db.query(EventModel.title).filter(EventModel.title.in_(titles)).all()
query_titles_in(db, titles) == {row.title : row \in {r \in Range(db) : r.title \in titles}}

\* is_duplicate_event(db, title)
is_duplicate_event(db, title) ==
    IF ~Truthy(title) THEN FALSE
    ELSE \E row \in Range(db) : row.title = Str(Strip(title.s))

\* A wrong query: .first() in place of .all(), one title found at most.
get_duplicate_events_first(db, event_titles) ==
    IF event_titles = <<>> THEN {}
    ELSE LET found == query_titles_in(db, {Str(Strip(title.s)) :
                                            title \in {x \in Range(event_titles) : Truthy(x)}})
         IN  IF found = {} THEN {} ELSE {CHOOSE title \in found : TRUE}

\* A wrong normalization: the titles are looked up as they come.
get_duplicate_events_untrimmed(db, event_titles) ==
    IF event_titles = <<>> THEN {}
    ELSE query_titles_in(db, {x \in Range(event_titles) : Truthy(x)})

\* get_duplicate_events(db, event_titles): the set of titles found
get_duplicate_events(db, event_titles) ==
    IF event_titles = <<>> THEN {}
    ELSE LET normalized_titles ==
                 {Str(Strip(title.s)) : title \in {x \in Range(event_titles) : Truthy(x)}}
         IN  query_titles_in(db, normalized_titles)

\* event.get("title"): None when the key is missing
GetTitle(event) == Get(event.title, None)

\* A wrong filter: the test of line 84 inverted.
filter_duplicate_events_inverted(db, events) ==
    IF events = <<>> THEN <<>>
    ELSE LET titles == SelectSeq([i \in 1..Len(events) |-> GetTitle(events[i])], Truthy)
             duplicates == get_duplicate_events(db, titles)
             keep(event) == /\ Truthy(GetTitle(event))
                            /\ Str(Strip(GetTitle(event).s)) \in duplicates
         IN  SelectSeq(events, keep)

\* A wrong filter: the title of line 84 is compared as it comes.
filter_duplicate_events_untrimmed(db, events) ==
    IF events = <<>> THEN <<>>
    ELSE LET titles == SelectSeq([i \in 1..Len(events) |-> GetTitle(events[i])], Truthy)
             duplicates == get_duplicate_events(db, titles)
             keep(event) == /\ Truthy(GetTitle(event))
                            /\ GetTitle(event) \notin duplicates
         IN  SelectSeq(events, keep)

\* filter_duplicate_events(db, events)
filter_duplicate_events(db, events) ==
    IF events = <<>> THEN <<>>
    ELSE LET titles == SelectSeq([i \in 1..Len(events) |-> GetTitle(events[i])], Truthy)
             duplicates == get_duplicate_events(db, titles)
             keep(event) == /\ Truthy(GetTitle(event))
                            /\ Str(Strip(GetTitle(event).s)) \notin duplicates
         IN  SelectSeq(events, keep)

(***************************************************************************)
(* An ingestion run, as the specification describes the orchestrator: the  *)
(* extracted records are validated, the valid ones are filtered against    *)
(* the events table, and every survivor is inserted as a scraped event.    *)
(***************************************************************************)
\* Lines 391-392: if validated_event: validated_events.append(validated_event)
accumulate(validated, result) ==
    IF result = None THEN validated ELSE Append(validated, result)

\* Lines 390-392 for one result of process_and_validate.
keep_valid(validated, r) == IF r.exc = "" THEN accumulate(validated, r.val) ELSE validated

RECURSIVE validate_all(_, _)
\* The loop of crawl, lines 389-392, over a batch of raw records.
validate_all(raw, acc) ==
    IF raw = <<>> THEN acc
    ELSE validate_all(Tail(raw), keep_valid(acc, process_and_validate(Head(raw))))

\* The Event row of one surviving record.
event_row(record) == [title |-> record.title, is_scraped |-> TRUE]

insert_events(db, records) == db \o [i \in 1..Len(records) |-> event_row(records[i])]

(***************************************************************************)
(* The source site, as far as one crawl sees it: the JSON-LD objects a     *)
(* page may carry and the answers a request may get.                       *)
(***************************************************************************)
EventA ==
    [type        |-> Str(<<"Event">>),
     name        |-> Str(<<" ", "A", " ">>),
     startDate   |-> DStr("aware", 10, 36000, -28800),
     endDate     |-> DStr("aware", 10, 43200, -28800),
     url         |-> Str(<<"/", "e">>),
     description |-> Str(<<"a", " ", "<", "p", ">", "b">>),
     image       |-> Str(<<"h", ":", "/", "i">>),
     location    |-> PyDict(<<"k">>),
     loc_name    |-> Str(<<"L">>),
     loc_address |-> Str(<<"S">>),
     geo         |-> PyDict(<<"k">>),
     geo_lat     |-> Str(<<"4", "4", ".", "0">>),
     geo_lon     |-> Str(<<"-", "1", "2", "3">>)]

EventB == [EventA EXCEPT !.name = Str(<<"B">>), !.startDate = DStr("date", 11, 0, 0),
                         !.endDate = DStr("date", 11, 0, 0), !.geo = Absent]

\* end before start
EventBadOrder == [EventA EXCEPT !.name = Str(<<"C">>), !.endDate = DStr("aware", 10, 32400, -28800)]

\* markup in the title
EventBadTitle == [EventA EXCEPT !.name = Str(<<"<", "b", ">">>)]

\* a title that is no string
EventNumTitle == [EventA EXCEPT !.name = PyInt(<<"7">>)]

\* a latitude written as an integer of 310 digits
EventHugeLat ==
    [EventA EXCEPT !.name = Str(<<"H">>),
                   !.geo_lat = PyInt([i \in 1..(FLOAT_MAX_DIGITS + 1) |-> "9"])]

\* "location": "Online"
EventLocStr == [EventA EXCEPT !.name = Str(<<"O">>), !.location = Str(<<"O">>)]

Place == [EventA EXCEPT !.type = Str(<<"Place">>)]

JsonString == [EventA EXCEPT !.type = NotDict]

Script(text, items) == [text |-> text, items |-> items]

\* A page with a malformed block, a block of another type, and events of
\* which some fail validation.
PageMixed ==
    << Script("bad", <<>>),
       Script("dict", <<Place>>),
       Script("list", <<EventA, JsonString, EventBadOrder, EventBadTitle, EventNumTitle, EventB>>) >>

PageNoScripts == <<>>

PageNoEvents == << Script("none", <<>>), Script("list", <<Place, JsonString>>) >>

PageOverflow == << Script("list", <<EventA, EventHugeLat, EventB>>) >>

PageLocStr == << Script("dict", <<EventA>>), Script("dict", <<EventLocStr>>) >>

Pages == {PageMixed, PageNoScripts, PageNoEvents, PageOverflow, PageLocStr}

Response(k, code, html) == [k |-> k, code |-> code, html |-> html]

Responses ==
    {Response("ok", 200, p) : p \in Pages}
        \cup {Response("ok", 404, <<>>), Response("ok", 500, <<>>), Response("neterr", 0, <<>>)}

(***************************************************************************)
(* One run of crawl(url, out_csv).                                         *)
(*   pc               "fetch"    in fetch_html(current_url), line 373      *)
(*                    "validate" in the loop of lines 389-392              *)
(*                    "finish"   at line 408, the page loop left           *)
(*                    "end"      returned                                  *)
(*   page_counter, validated_events, html: the locals of crawl             *)
(*   events_on_page   the records of the page that the loop of line 389    *)
(*                    has not reached yet                                  *)
(*   attempts         the answers to the requests of the current call of   *)
(*                    fetch_html, in order                                 *)
(*   fetch_result     "pending", "return", or the class of the exception   *)
(*                    the current call of fetch_html raised                *)
(*   outcome          how the page loop was left: "running", "cap" (range  *)
(*                    exhausted), "http404" (line 378), "empty" (line      *)
(*                    387), "fatal" (line 402), "unexpected" (line 404)    *)
(*   out_csv          the output file: [written, rows, error]              *)
(*   pages            history: the rows parse_listing returned, per page   *)
(*   fetched          history: the page numbers requested                  *)
(***************************************************************************)
VARIABLES pc, page_counter, attempts, fetch_result, html, events_on_page,
          validated_events, outcome, out_csv, pages, fetched

crawlVars == <<pc, page_counter, attempts, fetch_result, html, events_on_page,
               validated_events, outcome, out_csv, pages, fetched>>

VARIABLES events_table, run_no, last_raw, repeat, last_candidates, last_duplicates,
          last_inserted

ingestVars == <<events_table, run_no, last_raw, repeat, last_candidates, last_duplicates,
                last_inserted>>

\* One call of process_and_validate and one call of parse_listing, taken
\* alone: the argument, and the outcome ("idle" before the call returns).
VARIABLES raw_event, validated_event, listing_html, listing

callVars == <<raw_event, validated_event, listing_html, listing>>

\* Ingestion runs that overlap in time: for each run its place ("idle",
\* "checked", "done"), its candidates, the titles get_duplicate_events
\* found in the table and the survivors of its filter.
VARIABLE runs

\* The duplicate check called again and again on one list of candidate
\* events: the list, and what each round of calls returned.
VARIABLES check_events, check_results

dupVars == <<check_events, check_results>>

\* The web API: the users table (user_id -> role, "absent" without a row),
\* the rows of user_events, the last value of the events_event_id sequence,
\* the last request with its answer, and the number of requests served.
VARIABLES users, user_events, event_seq, request, response, requests_made

apiVars == <<users, user_events, event_seq, request, response, requests_made>>

otherVars == <<ingestVars, callVars, runs, dupVars, apiVars>>

vars == <<crawlVars, ingestVars, callVars, runs, dupVars, apiVars>>

NoUsers == <<>>

NoRequest == [op |-> "none"]

Runs == {1, 2}

NotCalled == [exc |-> "idle", val |-> None]

NotParsed == [exc |-> "idle", rows |-> <<>>]

NotStarted ==
    [r \in Runs |-> [pc |-> "idle", candidates |-> <<>>, found |-> {}, unique |-> <<>>]]

\* crawl(url, out_csv) is entered; no ingestion run has happened.
CrawlInit ==
    /\ pc = "fetch"
    /\ page_counter = 1
    /\ attempts = <<>>
    /\ fetch_result = "pending"
    /\ html = <<>>
    /\ events_on_page = <<>>
    /\ validated_events = <<>>
    /\ outcome = "running"
    /\ out_csv = [written |-> FALSE, rows |-> <<>>, error |-> ""]
    /\ pages = <<>>
    /\ fetched = {}
    /\ events_table = <<>>
    /\ run_no = 0
    /\ last_raw = <<>>
    /\ repeat = FALSE
    /\ last_candidates = <<>>
    /\ last_duplicates = {}
    /\ last_inserted = <<>>
    /\ check_events = <<>>
    /\ check_results = <<>>
    /\ users = NoUsers
    /\ user_events = <<>>
    /\ event_seq = 0
    /\ request = NoRequest
    /\ response = NoRequest
    /\ requests_made = 0
    /\ raw_event = None
    /\ validated_event = NotCalled
    /\ listing_html = <<>>
    /\ listing = NotParsed
    /\ runs = NotStarted

\* A wrong end of the page loop: the run returns without writing.
Leave_return(how) ==
    /\ outcome' = how
    /\ pc' = "end"

\* Leave the page loop: a break, or an exception caught at line 401 or 403.
Leave(how) ==
    /\ outcome' = how
    /\ pc' = "finish"

\* Lines 383-387: the page fetch_html returned is parsed.
Parsed(page, parsed) ==
    /\ html' = page
    /\ IF parsed.exc # "" THEN Leave("unexpected") /\ UNCHANGED <<pages, events_on_page>>
       ELSE /\ pages' = Append(pages, parsed.rows)
            /\ IF no_events(parsed.rows) THEN Leave("empty") /\ UNCHANGED events_on_page
               ELSE /\ events_on_page' = parsed.rows
                    /\ pc' = "validate"
                    /\ UNCHANGED outcome

\* What fetch_html does after the attempt that got resp.
Attempted(resp, result) ==
    /\ fetch_result' = IF result = "retry" THEN "pending" ELSE result
    /\ CASE result = "retry" ->
              UNCHANGED <<pc, html, events_on_page, outcome, pages>>
         [] result = "return" ->
              Parsed(resp.html, parse_listing(resp.html, current_url(page_counter)))
         [] OTHER ->
              /\ Leave(crawl_except(result, resp.code))
              /\ UNCHANGED <<html, pages, events_on_page>>

\* One requests.get inside fetch_html, and what crawl does with a page that
\* is returned: lines 373-387.
Request(resp) ==
    /\ pc = "fetch"
    /\ attempts' = Append(attempts, resp)
    /\ fetched' = fetched \cup {page_counter}
    /\ Attempted(resp, fetch_html(fetch_attempt(resp), Len(attempts) + 1))
    /\ UNCHANGED <<page_counter, validated_events, out_csv>>
    /\ UNCHANGED otherVars

\* Lines 390-392 for the record at the head of the page; an exception that
\* escapes process_and_validate leaves the loops with the record unhandled.
Validating(r, rest) ==
    IF r.exc # "" THEN
        /\ Leave("unexpected")
        /\ UNCHANGED <<validated_events, events_on_page>>
    ELSE
        /\ validated_events' = accumulate(validated_events, r.val)
        /\ events_on_page' = rest
        /\ UNCHANGED <<pc, outcome>>

\* One turn of the loop of lines 389-392.
ValidateRecord ==
    /\ pc = "validate"
    /\ events_on_page # <<>>
    /\ \E r \in {process_and_validate(Head(events_on_page))} :
           Validating(r, Tail(events_on_page))
    /\ UNCHANGED <<page_counter, attempts, fetch_result, html, out_csv, pages, fetched>>
    /\ UNCHANGED otherVars

\* Line 364: the records of the page are done; the page loop takes its next
\* turn or is exhausted.
NextPage ==
    /\ pc = "validate"
    /\ events_on_page = <<>>
    /\ IF last_page(page_counter) THEN
           /\ Leave("cap")
           /\ UNCHANGED <<page_counter, attempts, fetch_result>>
       ELSE
           /\ page_counter' = page_counter + 1
           /\ pc' = "fetch"
           /\ attempts' = <<>>
           /\ fetch_result' = "pending"
           /\ UNCHANGED outcome
    /\ UNCHANGED <<events_on_page, validated_events, html, out_csv, pages, fetched>>
    /\ UNCHANGED otherVars

\* Lines 408-425
WriteCsv(io) ==
    /\ pc = "finish"
    /\ out_csv' = write_csv(validated_events, io)
    /\ pc' = "end"
    /\ UNCHANGED <<page_counter, attempts, fetch_result, html, events_on_page,
                   validated_events, outcome, pages, fetched>>
    /\ UNCHANGED otherVars

CrawlNext ==
    \/ \E resp \in Responses : Request(resp)
    \/ ValidateRecord
    \/ NextPage
    \/ \E io \in {"ok", "IOError"} : WriteCsv(io)

SpecCrawl == CrawlInit /\ [][CrawlNext]_vars

\* crawl is a sequential procedure: it takes its next step whenever it has
\* one, and every request returns or times out (timeout=10).
SpecCrawlFair == SpecCrawl /\ WF_vars(CrawlNext)

(***************************************************************************)
(* Ingestion runs, one after the other, against one events table.          *)
(*   events_table     the events table                                     *)
(*   run_no           the number of runs completed                         *)
(*   last_raw         the records the last run extracted                   *)
(*   repeat           the last run extracted what the run before it did    *)
(*   last_candidates  the validated records of the last run                *)
(*   last_duplicates  what get_duplicate_events reported for them          *)
(*   last_inserted    the rows the last run inserted                       *)
(***************************************************************************)
MaxBatch == 2

MaxRuns == 3

RawOf(event) == ParseItem(event, base_url).val[1]

EventLower == [EventA EXCEPT !.name = Str(<<"a">>)]

EventTrimmedA == [EventA EXCEPT !.name = Str(<<"A">>), !.description = Str(<<"x">>)]

RawPool == {RawOf(EventA), RawOf(EventTrimmedA), RawOf(EventLower), RawOf(EventBadTitle)}

RECURSIVE SeqsUpTo(_, _)
SeqsUpTo(S, n) ==
    IF n = 0 THEN {<<>>}
    ELSE LET shorter == SeqsUpTo(S, n - 1)
         IN  shorter \cup {Append(q, x) : q \in shorter, x \in S}

Batches == SeqsUpTo(RawPool, MaxBatch)

\* The survivors of the filter are inserted.
Persist(unique) ==
    /\ last_inserted' = unique
    /\ events_table' = insert_events(events_table, unique)

Titles(candidates) == [i \in 1..Len(candidates) |-> candidates[i].title]

Ingest(candidates) ==
    /\ last_candidates' = candidates
    /\ last_duplicates' = get_duplicate_events(events_table, Titles(candidates))
    /\ Persist(filter_duplicate_events(events_table, candidates))

IngestRun(raw) ==
    /\ run_no < MaxRuns
    /\ Ingest(validate_all(raw, <<>>))
    /\ repeat' = (run_no >= 1 /\ raw = last_raw)
    /\ last_raw' = raw
    /\ run_no' = run_no + 1
    /\ UNCHANGED <<dupVars, apiVars, crawlVars, callVars, runs>>

IngestNext == \E raw \in Batches : IngestRun(raw)

\* The events table is empty; the crawl takes no step.
IngestInit == CrawlInit

SpecIngest == IngestInit /\ [][IngestNext]_vars

(***************************************************************************)
(* Ingestion runs that overlap in time.  Nothing excludes one run from     *)
(* another: the check of a run against the events table and its inserts    *)
(* are two steps, and steps of other runs may come between them.           *)
(***************************************************************************)
\* Run r validates its records and filters them against the table.
Checked(r, candidates) ==
    runs' = [runs EXCEPT ![r] =
                [pc         |-> "checked",
                 candidates |-> candidates,
                 found      |-> get_duplicate_events(events_table, Titles(candidates)),
                 unique     |-> filter_duplicate_events(events_table, candidates)]]

RaceCheck(r, raw) ==
    /\ runs[r].pc = "idle"
    /\ Checked(r, validate_all(raw, <<>>))
    /\ UNCHANGED <<dupVars, apiVars, crawlVars, ingestVars, callVars>>

\* Run r inserts the survivors of its filter.
RaceInsert(r) ==
    /\ runs[r].pc = "checked"
    /\ events_table' = insert_events(events_table, runs[r].unique)
    /\ runs' = [runs EXCEPT ![r].pc = "done"]
    /\ UNCHANGED <<dupVars, apiVars, crawlVars, callVars, run_no, last_raw, repeat, last_candidates,
                   last_duplicates, last_inserted>>

RaceNext ==
    \/ \E r \in Runs, raw \in Batches : RaceCheck(r, raw)
    \/ \E r \in Runs : RaceInsert(r)

\* No run has started; the events table is empty.
RaceInit == CrawlInit

SpecRace == RaceInit /\ [][RaceNext]_vars

(***************************************************************************)
(* One call of process_and_validate, on a raw record as parse_listing      *)
(* builds them: the record of a valid event with one or two of its fields  *)
(* replaced.                                                               *)
(***************************************************************************)
\* The current UTC date, and how far the dates of the records lie from it.
Today == 10

DaySpan == 1

Days == (Today - DaySpan)..(Today + DaySpan)

Repeat(c, n) == [i \in 1..n |-> c]

BaseRaw == RawOf(EventA)

\* Timestamps as the site writes them: a bare date, a time of day at -08:00
\* or at UTC, a time of day without offset; and text that is no timestamp.
Stamps ==
    {DStr("date", day, 0, 0) : day \in Days}
        \cup {DStr("aware", day, sec, -28800) : day \in Days, sec \in {0, 36000, 86399}}
        \cup {DStr("aware", day, 36000, 0) : day \in Days}
        \cup {DStr("naive", day, sec, 0) : day \in Days, sec \in {36000, 43200}}
        \cup {DStr("junk10", 0, 0, 0), DStr("junk", 0, 0, 0), EmptyStr}

TitlePool ==
    {Str(<<"A">>), Str(<<" ", "A", " ">>), Str(<<"A", "-", "1", ",", " ", "(", "b", ")", "!">>),
     Str(<<" ">>), Str(<<"\t", " ">>), EmptyStr,
     Str(<<"<", "b", ">">>), Str(<<"a", ">", "b">>), Str(<<"a", "<">>),
     Str(<<"A", "@">>), Str(<<"fi">>),
     Str(Repeat("a", TITLE_MAX)), Str(Repeat("a", TITLE_MAX + 1)),
     Str(Append(Repeat("a", TITLE_MAX), " ")), Str(Repeat("fi", TITLE_MAX)),
     PyInt(<<"7">>), None}

DescriptionPool ==
    {EmptyStr, None, Str(<<"a", " ", "<", "p", ">", "b">>),
     Str(Repeat("a", DESCRIPTION_MAX)), Str(Repeat("a", DESCRIPTION_MAX + 1)),
     Str(Repeat("a", DESCRIPTION_MAX) \o <<" ", "<", "p", ">", "b">>),
     Str(Repeat("<", DESCRIPTION_MAX)), Str(Repeat("fi", DESCRIPTION_MAX)),
     PyInt(<<"7">>)}

\* A location name or an address
PlacePool ==
    {Str(<<"L">>), Str(<<" ", "L", " ">>), EmptyStr, Str(<<" ">>), Str(<<" ", "\t">>),
     Str(Repeat("a", ADDRESS_MAX + 1)), Str(Repeat("a", LOCATION_MAX + 1))}

CoordinatePool ==
    {EmptyStr, None, Str(<<"4", "4", ".", "0">>), Str(<<"a">>), PyInt(<<"7">>),
     PyFloat(<<"4", "4", ".", "0">>)}

UrlPool == {EmptyStr, Str(<<"h", ":", "/", "i">>), Str(<<"/", "e">>)}

RawEvents ==
    {[BaseRaw EXCEPT !.start_at = start, !.ends_at = ends] : start \in Stamps, ends \in Stamps}
        \cup {[BaseRaw EXCEPT !.title = title, !.description = description] :
                 title \in TitlePool, description \in {BaseRaw.description, EmptyStr}}
        \cup {[BaseRaw EXCEPT !.description = description] : description \in DescriptionPool}
        \cup {[BaseRaw EXCEPT !.location = location, !.address = address] :
                 location \in PlacePool, address \in PlacePool}
        \cup {[BaseRaw EXCEPT !.latitude = latitude, !.longitude = longitude] :
                 latitude \in CoordinatePool, longitude \in CoordinatePool}
        \cup {[BaseRaw EXCEPT !.website = website, !.image = image] :
                 website \in UrlPool, image \in UrlPool}

\* process_and_validate is about to be called on a raw record.
ValidateInit ==
    /\ raw_event \in RawEvents
    /\ validated_event = NotCalled
    /\ listing_html = <<>>
    /\ listing = NotParsed
    /\ runs = NotStarted
    /\ pc = "end"
    /\ page_counter = 1
    /\ attempts = <<>>
    /\ fetch_result = "pending"
    /\ html = <<>>
    /\ events_on_page = <<>>
    /\ validated_events = <<>>
    /\ outcome = "running"
    /\ out_csv = [written |-> FALSE, rows |-> <<>>, error |-> ""]
    /\ pages = <<>>
    /\ fetched = {}
    /\ events_table = <<>>
    /\ run_no = 0
    /\ last_raw = <<>>
    /\ repeat = FALSE
    /\ last_candidates = <<>>
    /\ last_duplicates = {}
    /\ last_inserted = <<>>
    /\ check_events = <<>>
    /\ check_results = <<>>
    /\ users = NoUsers
    /\ user_events = <<>>
    /\ event_seq = 0
    /\ request = NoRequest
    /\ response = NoRequest
    /\ requests_made = 0

\* The call returns, or raises.
ProcessAndValidate ==
    /\ validated_event = NotCalled
    /\ validated_event' = process_and_validate(raw_event)
    /\ UNCHANGED <<dupVars, apiVars, crawlVars, ingestVars, raw_event, listing_html, listing, runs>>

ValidateNext == ProcessAndValidate

SpecValidate == ValidateInit /\ [][ValidateNext]_vars

(***************************************************************************)
(* One call of parse_listing, on a page of a few ld+json blocks.           *)
(***************************************************************************)
MaxScripts == 2

\* "location": null
EventLocNull == [EventA EXCEPT !.name = Str(<<"N">>), !.location = None]

\* "location": ["Online"]
EventLocList == [EventA EXCEPT !.name = Str(<<"M">>),
                               !.location = [t |-> "list", s |-> <<"O">>, d |-> <<>>]]

\* an event without a name and without a location
EventBare == [EventB EXCEPT !.name = Absent, !.location = Absent]

ScriptPool ==
    {Script("bad", <<>>), Script("none", <<>>), Script("scalar", <<>>),
     Script("dict", <<EventA>>), Script("dict", <<Place>>), Script("dict", <<EventLocStr>>),
     Script("dict", <<EventLocList>>),
     Script("list", <<>>), Script("list", <<EventB, JsonString, Place, EventBare>>),
     Script("list", <<EventNumTitle, EventLocNull, EventA>>)}

ListingPages == SeqsUpTo(ScriptPool, MaxScripts)

\* parse_listing is about to be called on a page.
ParseInit ==
    /\ listing_html \in ListingPages
    /\ listing = NotParsed
    /\ raw_event = BaseRaw
    /\ validated_event = NotCalled
    /\ runs = NotStarted
    /\ pc = "end"
    /\ page_counter = 1
    /\ attempts = <<>>
    /\ fetch_result = "pending"
    /\ html = <<>>
    /\ events_on_page = <<>>
    /\ validated_events = <<>>
    /\ outcome = "running"
    /\ out_csv = [written |-> FALSE, rows |-> <<>>, error |-> ""]
    /\ pages = <<>>
    /\ fetched = {}
    /\ events_table = <<>>
    /\ run_no = 0
    /\ last_raw = <<>>
    /\ repeat = FALSE
    /\ last_candidates = <<>>
    /\ last_duplicates = {}
    /\ last_inserted = <<>>
    /\ check_events = <<>>
    /\ check_results = <<>>
    /\ users = NoUsers
    /\ user_events = <<>>
    /\ event_seq = 0
    /\ request = NoRequest
    /\ response = NoRequest
    /\ requests_made = 0

\* The call returns, or raises.
ParseListing ==
    /\ listing = NotParsed
    /\ listing' = parse_listing(listing_html, base_url)
    /\ UNCHANGED <<dupVars, apiVars, crawlVars, ingestVars, raw_event, validated_event, listing_html, runs>>

ParseNext == ParseListing

SpecParse == ParseInit /\ [][ParseNext]_vars

(***************************************************************************)
(* The three functions of duplicate_check.py called on a list of           *)
(* candidate events against a stored events table, several times over.     *)
(***************************************************************************)
MaxStored == 2

MaxCandidates == 2

MaxChecks == 2

StoredTitles == {Str(<<"A">>), Str(<<"a">>), Str(<<"B">>)}

StoredTables ==
    {[i \in 1..Len(q) |-> [title |-> q[i], is_scraped |-> TRUE]] :
        q \in SeqsUpTo(StoredTitles, MaxStored)}

\* The value under "title" of a candidate: missing, None, empty, blank,
\* stored as it is, stored once trimmed, stored in another case.
CandidateTitlePool ==
    {Absent, None, EmptyStr, Str(<<" ">>), Str(<<"A">>), Str(<<" ", "A", " ">>), Str(<<"a">>)}

CandidateLists ==
    {[i \in 1..Len(q) |-> [title |-> q[i]]] : q \in SeqsUpTo(CandidateTitlePool, MaxCandidates)}

\* One round: is_duplicate_event on every title, get_duplicate_events on
\* the list of titles, filter_duplicate_events on the list of events.
CheckRound(db, events) ==
    [each   |-> [i \in 1..Len(events) |-> is_duplicate_event(db, GetTitle(events[i]))],
     found  |-> get_duplicate_events(db, [i \in 1..Len(events) |-> GetTitle(events[i])]),
     unique |-> filter_duplicate_events(db, events)]

DupInit ==
    /\ events_table \in StoredTables
    /\ check_events \in CandidateLists
    /\ check_results = <<>>
    /\ run_no = 0
    /\ last_raw = <<>>
    /\ repeat = FALSE
    /\ last_candidates = <<>>
    /\ last_duplicates = {}
    /\ last_inserted = <<>>
    /\ users = NoUsers
    /\ user_events = <<>>
    /\ event_seq = 0
    /\ request = NoRequest
    /\ response = NoRequest
    /\ requests_made = 0
    /\ raw_event = BaseRaw
    /\ validated_event = NotCalled
    /\ listing_html = <<>>
    /\ listing = NotParsed
    /\ runs = NotStarted
    /\ pc = "end"
    /\ page_counter = 1
    /\ attempts = <<>>
    /\ fetch_result = "pending"
    /\ html = <<>>
    /\ events_on_page = <<>>
    /\ validated_events = <<>>
    /\ outcome = "running"
    /\ out_csv = [written |-> FALSE, rows |-> <<>>, error |-> ""]
    /\ pages = <<>>
    /\ fetched = {}

\* A wrong round: the survivors of the filter are inserted by the check.
DupCheck_persist ==
    /\ Len(check_results) < MaxChecks
    /\ check_results' = Append(check_results, CheckRound(events_table, check_events))
    /\ events_table' = insert_events(events_table, filter_duplicate_events(events_table, check_events))
    /\ UNCHANGED <<check_events, run_no, last_raw, repeat, last_candidates, last_duplicates,
                   last_inserted, apiVars, crawlVars, callVars, runs>>

\* The functions only query: nothing is added, nothing is committed.
DupCheck ==
    /\ Len(check_results) < MaxChecks
    /\ check_results' = Append(check_results, CheckRound(events_table, check_events))
    /\ UNCHANGED <<events_table, check_events, run_no, last_raw, repeat, last_candidates,
                   last_duplicates, last_inserted, apiVars, crawlVars, callVars, runs>>

DupNext == DupCheck

SpecDup == DupInit /\ [][DupNext]_vars

(***************************************************************************)
(* The web API: auth/jwt.py, routes/events.py, routes/users.py.            *)
(*                                                                         *)
(* A token is absent, invalid (bad signature, expired) or valid with its   *)
(* claims sub, email and role.  A row of events keeps event_id, title,     *)
(* start_time, end_time (hours of a time without time zone), created_by    *)
(* (the set of its creator, empty for NULL) and is_scraped.  A time in a   *)
(* request body is [k, h, off]: k is "naive" ("10:00"), "aware"            *)
(* ("10:00+05:00"), "bad" (no time) or "absent".  Category, date,          *)
(* organization and location of an event are taken as valid and left out.  *)
(***************************************************************************)
MaxRequests == 2

UserIds == {1, 2, 3}

Roles == {"user", "coordinator", "admin"}

Email(user_id) == [of |-> user_id, uoregon |-> TRUE]

\* jwt.py:33
ADMIN_EMAILS == {Email(3)}

NoToken == [kind |-> "none", sub |-> 0, email |-> Email(0), role |-> ""]

BadToken == [kind |-> "invalid", sub |-> 0, email |-> Email(0), role |-> ""]

Token(user_id, role) == [kind |-> "valid", sub |-> user_id, email |-> Email(user_id), role |-> role]

Tokens == {NoToken, BadToken, Token(1, ""), Token(2, "admin"), Token(3, "")}

NoTime == [k |-> "absent", h |-> 0, off |-> 0]

Time(h) == [k |-> "naive", h |-> h, off |-> 0]

TimeAt(h, off) == [k |-> "aware", h |-> h, off |-> off]

\* parse_time, events.py:22-31: a str is parsed or raises ValueError
parse_time(value) == IF value.k = "bad" THEN Raise("ValueError") ELSE Ret(value)

\* et <= st of datetime.time: two aware times are compared as UTC, an
\* aware and a naive time cannot be compared.
time_le(et, st) ==
    IF et.k # st.k THEN [exc |-> "TypeError", val |-> FALSE]
    ELSE [exc |-> "", val |-> et.h - et.off <= st.h - st.off]

\* A wrong table: no check on the time range.
check_valid_time_range_none(row) == TRUE

\* models.py:144: CheckConstraint('end_time > start_time')
check_valid_time_range(row) == row.end_time > row.start_time

\* A wrong rule: every new account is an admin.
base_role_admin(email) == "admin"

\* jwt.py:112
base_role(email) == IF email \in ADMIN_EMAILS THEN "admin" ELSE "user"

\* The tables as a request finds them
Db == [users |-> users, events |-> events_table, user_events |-> user_events, seq |-> event_seq]

Answer(status, saved, db) == [status |-> status, saved |-> saved, db |-> db]

\* _get_or_create_app_user, jwt.py:98-118: the row found, or a row added and
\* committed.  The session is closed before the instance is returned
\* (db_init.py:42 keeps expire_on_commit), so that the attributes of an
\* instance just committed cannot be loaded any more: reading role raises.
app_user(db, token) ==
    IF db.users[token.sub] # "absent"
    THEN [db |-> db, user_id |-> token.sub, role |-> Ret(db.users[token.sub]), status |-> 0]
    ELSE [db |-> [db EXCEPT !.users[token.sub] = base_role(token.email)],
          user_id |-> token.sub, role |-> Raise("DetachedInstanceError"), status |-> 0]

\* require_app_user, jwt.py:121-166: status 0 lets the request through.
require_app_user(token, require_uo_domain, db) ==
    IF token.kind # "valid"
    THEN [db |-> db, user_id |-> 0, role |-> Raise("unset"), status |-> 401]
    ELSE IF require_uo_domain /\ ~token.email.uoregon
    THEN [db |-> db, user_id |-> 0, role |-> Raise("unset"), status |-> 403]
    ELSE app_user(db, token)

EventIds(db) == {db.events[i].event_id : i \in 1..Len(db.events)}

\* db.query(Event).filter(Event.event_id == event_id).first()
IndexOf(db, event_id) == CHOOSE i \in 1..Len(db.events) : db.events[i].event_id = event_id

\* db.add(ev); db.commit() of create_event: the sequence advances, the row
\* is kept unless the check constraint refuses it.
Inserted(g, row) ==
    IF check_valid_time_range(row)
    THEN Answer(201, FALSE, [g.db EXCEPT !.events = Append(@, row), !.seq = @ + 1])
    ELSE Answer(500, FALSE, [g.db EXCEPT !.seq = @ + 1])

\* create_event, events.py:151-243
create_event(g, data) ==
    IF g.role.exc # "" THEN Answer(500, FALSE, g.db)
    ELSE IF g.role.val \notin {"coordinator", "admin"} THEN Answer(403, FALSE, g.db)
    ELSE IF data.title = <<>> \/ "absent" \in {data.start_time.k, data.end_time.k}
    THEN Answer(400, FALSE, g.db)
    ELSE IF "ValueError" \in {parse_time(data.start_time).exc, parse_time(data.end_time).exc}
    THEN Answer(400, FALSE, g.db)
    ELSE IF time_le(data.end_time, data.start_time).exc # "" THEN Answer(500, FALSE, g.db)
    ELSE IF time_le(data.end_time, data.start_time).val THEN Answer(400, FALSE, g.db)
    ELSE Inserted(g, [event_id   |-> g.db.seq + 1,
                      title      |-> Str(data.title),
                      start_time |-> data.start_time.h,
                      end_time   |-> data.end_time.h,
                      created_by |-> {g.user_id},
                      is_scraped |-> FALSE])

\* events.py:262-265 and 311-314: the event has a creator, and the
\* requester is the creator or an admin.  Gives the status of the refusal,
\* 0 when there is none.
Forbidden(g, ev) ==
    IF ev.created_by = {} THEN 403
    ELSE IF ev.created_by = {g.user_id} THEN 0
    ELSE IF g.role.exc # "" THEN 500
    ELSE IF g.role.val # "admin" THEN 403
    ELSE 0

\* ev.start_time or ev.end_time after events.py:277-280
NewTime(stored, given) == IF given.k = "absent" THEN Time(stored) ELSE given

\* events.py:267-295 of update_event, for the row at index i
Updated(g, i, data, st, et) ==
    IF "ValueError" \in {parse_time(data.start_time).exc, parse_time(data.end_time).exc}
    THEN Answer(400, FALSE, g.db)
    ELSE IF time_le(et, st).exc # "" THEN Answer(500, FALSE, g.db)
    ELSE IF time_le(et, st).val THEN Answer(400, FALSE, g.db)
    ELSE IF ~check_valid_time_range([start_time |-> st.h, end_time |-> et.h])
    THEN Answer(500, FALSE, g.db)
    ELSE Answer(200, FALSE,
                [g.db EXCEPT !.events[i].title = IF data.title = <<>> THEN @ ELSE Str(data.title),
                             !.events[i].start_time = st.h,
                             !.events[i].end_time = et.h])

\* update_event, events.py:250-297
update_event(g, event_id, data) ==
    IF event_id \notin EventIds(g.db) THEN Answer(404, FALSE, g.db)
    ELSE IF Forbidden(g, g.db.events[IndexOf(g.db, event_id)]) # 0
    THEN Answer(Forbidden(g, g.db.events[IndexOf(g.db, event_id)]), FALSE, g.db)
    ELSE Updated(g, IndexOf(g.db, event_id), data,
                 NewTime(g.db.events[IndexOf(g.db, event_id)].start_time, data.start_time),
                 NewTime(g.db.events[IndexOf(g.db, event_id)].end_time, data.end_time))

\* delete_event, events.py:300-322; user_events rows go with the event
\* (ondelete='CASCADE', models.py:225-226).
delete_event(g, event_id) ==
    IF event_id \notin EventIds(g.db) THEN Answer(404, FALSE, g.db)
    ELSE IF Forbidden(g, g.db.events[IndexOf(g.db, event_id)]) # 0
    THEN Answer(Forbidden(g, g.db.events[IndexOf(g.db, event_id)]), FALSE, g.db)
    ELSE LET other(ev) == ev.event_id # event_id
         IN  Answer(200, FALSE, [g.db EXCEPT !.events = SelectSeq(@, other),
                                             !.user_events = SelectSeq(@, other)])

\* A wrong save: a relation is added at every request.
save_event_again(g, event_id) ==
    IF event_id \notin EventIds(g.db) THEN Answer(404, FALSE, g.db)
    ELSE Answer(200, TRUE, [g.db EXCEPT !.user_events =
                                Append(@, [user_id |-> g.user_id, event_id |-> event_id])])

\* save_event, events.py:329-356
save_event(g, event_id) ==
    IF event_id \notin EventIds(g.db) THEN Answer(404, FALSE, g.db)
    ELSE IF \E i \in 1..Len(g.db.user_events) :
                g.db.user_events[i] = [user_id |-> g.user_id, event_id |-> event_id]
    THEN Answer(200, TRUE, g.db)
    ELSE Answer(200, TRUE, [g.db EXCEPT !.user_events =
                                Append(@, [user_id |-> g.user_id, event_id |-> event_id])])

\* unsave_event, events.py:360-380
unsave_event(g, event_id) ==
    LET other(rel) == rel # [user_id |-> g.user_id, event_id |-> event_id]
    IN  Answer(200, FALSE, [g.db EXCEPT !.user_events = SelectSeq(@, other)])

\* set_role, users.py:88-113
set_role(g, user_id, new_role) ==
    IF g.role.exc # "" THEN Answer(500, FALSE, g.db)
    ELSE IF g.role.val # "admin" THEN Answer(403, FALSE, g.db)
    ELSE IF new_role \notin Roles THEN Answer(400, FALSE, g.db)
    ELSE IF g.db.users[user_id] = "absent" THEN Answer(404, FALSE, g.db)
    ELSE IF user_id = g.user_id /\ g.db.users[user_id] = "admin" /\ new_role # "admin"
    THEN Answer(400, FALSE, g.db)
    ELSE Answer(200, FALSE, [g.db EXCEPT !.users[user_id] = new_role])

\* The decorator answers, or the handler does.
Handled(g, answer) == IF g.status # 0 THEN Answer(g.status, FALSE, g.db) ELSE answer

\* One request is served.
Serve(req, answer) ==
    /\ requests_made < MaxRequests
    /\ requests_made' = requests_made + 1
    /\ request' = req
    /\ response' = [status |-> answer.status, saved |-> answer.saved]
    /\ users' = answer.db.users
    /\ events_table' = answer.db.events
    /\ user_events' = answer.db.user_events
    /\ event_seq' = answer.db.seq
    /\ UNCHANGED <<run_no, last_raw, repeat, last_candidates, last_duplicates, last_inserted,
                   dupVars, crawlVars, callVars, runs>>

ApiRequest(op, token, event_id, data, user_id, role) ==
    [op |-> op, token |-> token, event_id |-> event_id, data |-> data,
     user_id |-> user_id, role |-> role]

Body(title, start_time, end_time) ==
    [title |-> title, start_time |-> start_time, end_time |-> end_time]

NoBody == Body(<<>>, NoTime, NoTime)

\* Bodies of POST /api/events/
CreateBodies ==
    {Body(<<"N">>, Time(9), Time(10)), Body(<<"N">>, Time(10), Time(9)),
     Body(<<"N">>, Time(9), Time(9)), Body(<<"N">>, TimeAt(10, 5), TimeAt(9, 0)),
     Body(<<"N">>, TimeAt(9, 0), TimeAt(11, 0)), Body(<<"N">>, Time(9), TimeAt(11, 0)),
     Body(<<"N">>, [k |-> "bad", h |-> 0, off |-> 0], Time(10))}

\* Bodies of PATCH /api/events/<id>
UpdateBodies ==
    {Body(<<"U">>, NoTime, NoTime), Body(<<>>, Time(11), NoTime), Body(<<>>, NoTime, Time(9)),
     Body(<<>>, NoTime, Time(11)), Body(<<>>, TimeAt(10, 5), TimeAt(9, 0))}

\* Event ids a request may name: the two in use at first and the next.
SomeEventIds == {1, 2, 3}

CreateEvent(token, data) ==
    \E g \in {require_app_user(token, TRUE, Db)} :
        Serve(ApiRequest("create", token, 0, data, 0, ""), Handled(g, create_event(g, data)))

UpdateEvent(token, event_id, data) ==
    \E g \in {require_app_user(token, FALSE, Db)} :
        Serve(ApiRequest("update", token, event_id, data, 0, ""),
              Handled(g, update_event(g, event_id, data)))

DeleteEvent(token, event_id) ==
    \E g \in {require_app_user(token, FALSE, Db)} :
        Serve(ApiRequest("delete", token, event_id, NoBody, 0, ""),
              Handled(g, delete_event(g, event_id)))

SaveEvent(token, event_id) ==
    \E g \in {require_app_user(token, FALSE, Db)} :
        Serve(ApiRequest("save", token, event_id, NoBody, 0, ""),
              Handled(g, save_event(g, event_id)))

UnsaveEvent(token, event_id) ==
    \E g \in {require_app_user(token, FALSE, Db)} :
        Serve(ApiRequest("unsave", token, event_id, NoBody, 0, ""),
              Handled(g, unsave_event(g, event_id)))

SetRole(token, user_id, new_role) ==
    \E g \in {require_app_user(token, FALSE, Db)} :
        Serve(ApiRequest("set_role", token, 0, NoBody, user_id, new_role),
              Handled(g, set_role(g, user_id, new_role)))

ApiNext ==
    \/ \E token \in Tokens, data \in CreateBodies : CreateEvent(token, data)
    \/ \E token \in Tokens, event_id \in SomeEventIds, data \in UpdateBodies :
           UpdateEvent(token, event_id, data)
    \/ \E token \in Tokens, event_id \in SomeEventIds : DeleteEvent(token, event_id)
    \/ \E token \in Tokens, event_id \in SomeEventIds : SaveEvent(token, event_id)
    \/ \E token \in Tokens, event_id \in SomeEventIds : UnsaveEvent(token, event_id)
    \/ \E token \in Tokens, user_id \in UserIds, new_role \in {"coordinator", "admin", "root"} :
           SetRole(token, user_id, new_role)

\* The accounts as they may stand: only a coordinator seeded; everybody
\* with a row, the third an admin; the coordinator demoted by the admin.
SeededUsers ==
    {[u \in UserIds |-> IF u = 1 THEN "coordinator" ELSE "absent"],
     [u \in UserIds |-> IF u = 1 THEN "coordinator" ELSE IF u = 2 THEN "user" ELSE "admin"],
     [u \in UserIds |-> IF u = 1 THEN "user" ELSE IF u = 2 THEN "coordinator" ELSE "admin"]}

\* A scraped event, without creator, and an event the first user created
\* and saved.
SeededEvents ==
    << [event_id |-> 1, title |-> Str(<<"A">>), start_time |-> 9, end_time |-> 10,
        created_by |-> {}, is_scraped |-> TRUE],
       [event_id |-> 2, title |-> Str(<<"B">>), start_time |-> 9, end_time |-> 10,
        created_by |-> {1}, is_scraped |-> FALSE] >>

ApiInit ==
    /\ users \in SeededUsers
    /\ events_table = SeededEvents
    /\ user_events = <<[user_id |-> 1, event_id |-> 2]>>
    /\ event_seq = 2
    /\ request = NoRequest
    /\ response = NoRequest
    /\ requests_made = 0
    /\ check_events = <<>>
    /\ check_results = <<>>
    /\ run_no = 0
    /\ last_raw = <<>>
    /\ repeat = FALSE
    /\ last_candidates = <<>>
    /\ last_duplicates = {}
    /\ last_inserted = <<>>
    /\ raw_event = BaseRaw
    /\ validated_event = NotCalled
    /\ listing_html = <<>>
    /\ listing = NotParsed
    /\ runs = NotStarted
    /\ pc = "end"
    /\ page_counter = 1
    /\ attempts = <<>>
    /\ fetch_result = "pending"
    /\ html = <<>>
    /\ events_on_page = <<>>
    /\ validated_events = <<>>
    /\ outcome = "running"
    /\ out_csv = [written |-> FALSE, rows |-> <<>>, error |-> ""]
    /\ pages = <<>>
    /\ fetched = {}

SpecApi == ApiInit /\ [][ApiNext]_vars

(***************************************************************************)
(* Properties of the ingestion runs (SpecIngest).                          *)
(***************************************************************************)
RowTitles == [i \in 1..Len(events_table) |-> events_table[i].title]

\* C1: no two rows of the events table carry the same title, when every run
\* filters its candidates with filter_duplicate_events and inserts every
\* survivor, the runs coming one after the other.
C1_NoTwoRowsShareATitle ==
    \A i, j \in 1..Len(events_table) : i # j => RowTitles[i] # RowTitles[j]

\* C2: a run over the records the run before it extracted inserts nothing,
\* and get_duplicate_events reports the title of every candidate as present.
C2_RepeatedRunInsertsNothing ==
    repeat =>
        /\ last_inserted = <<>>
        /\ \A i \in 1..Len(last_candidates) : last_candidates[i].title \in last_duplicates

\* The second run repeats a first run that inserted two candidates.
C2_Witness ==
    /\ run_no = 2
    /\ repeat
    /\ Len(last_candidates) = 2
    /\ Len(events_table) = 2
    /\ last_candidates[1].title # last_candidates[2].title

(***************************************************************************)
(* Properties of one crawl (SpecCrawl).                                    *)
(***************************************************************************)
\* The current call of fetch_html raised.
FetchRaised == fetch_result \notin {"pending", "return"}

\* The run has left the page loop.
Ended == pc \in {"finish", "end"}

\* Every request of the current call of fetch_html was answered with code.
AllAnswered(code) ==
    /\ attempts # <<>>
    /\ \A i \in 1..Len(attempts) : attempts[i].k = "ok" /\ attempts[i].code = code

AllConnectionErrors ==
    /\ attempts # <<>>
    /\ \A i \in 1..Len(attempts) : attempts[i].k = "neterr"

RECURSIVE ValidOf(_, _)
\* The records of the pages ps that pass validation, in order, after acc.
ValidOf(ps, acc) ==
    IF ps = <<>> THEN acc
    ELSE ValidOf(Tail(ps), validate_all(Head(ps), acc))

\* C3: a page answered with HTTP 404 ends the run by the break of line 378,
\* a page answered with another HTTP error status ends it by the handler of
\* line 401, so that the two ends can be told apart.
C3_NotFoundAndFatalAreToldApart ==
    FetchRaised =>
        /\ AllAnswered(404) => outcome = "http404"
        /\ AllAnswered(500) => outcome = "fatal"

\* C4: fetch_html makes no further request after an HTTP error status: the
\* answer with the status is the last one of the call, and the HTTPError is
\* what the call raises.
C4_StatusErrorIsNotRetried ==
    \A i \in 1..Len(attempts) :
        fetch_attempt(attempts[i]) = "HTTPError" =>
            /\ i = Len(attempts)
            /\ fetch_result = "HTTPError"

\* C5: one call of fetch_html makes at most 5 requests; when every request
\* fails with a connection error it makes exactly 5 and then raises; when
\* request k is the first to succeed, it returns the body of that answer and
\* makes no request after it.
C5_AtMostFiveAttempts ==
    /\ Len(attempts) <= 5
    /\ fetch_result = "pending" => Len(attempts) < 5
    /\ (FetchRaised /\ AllConnectionErrors) => Len(attempts) = 5
    /\ (AllConnectionErrors /\ Len(attempts) = 5) => FetchRaised
    /\ \A k \in 1..Len(attempts) :
           fetch_attempt(attempts[k]) = "" =>
               /\ k = Len(attempts)
               /\ fetch_result = "return"
               /\ html = attempts[k].html
    /\ fetch_result = "return" => fetch_attempt(attempts[Len(attempts)]) = ""

\* The call for page 1 returned a page; the call for page 2 met a connection
\* error at each of five requests and raised.
C5_Witness ==
    /\ page_counter = 2
    /\ Len(pages) = 1
    /\ AllConnectionErrors
    /\ Len(attempts) = 5
    /\ FetchRaised

\* C6: when page n > 1 is answered with HTTP 404, the records of pages 1 to
\* n-1 that passed validation are the records handed to the writer, and they
\* are the rows of the output file unless writing the file itself fails.
C6_RecordsBeforeNotFoundAreWritten ==
    (page_counter > 1 /\ FetchRaised /\ attempts[Len(attempts)].code = 404) =>
        /\ Ended
        /\ Len(pages) = page_counter - 1
        /\ validated_events = ValidOf(pages, <<>>)
        /\ validated_events # <<>>
        /\ (pc = "end" /\ out_csv.error = "") =>
               out_csv.written /\ out_csv.rows = validated_events

\* Page 3 was answered with 404 at every request and the file is written.
C6_Witness ==
    /\ pc = "end"
    /\ page_counter = 3
    /\ AllAnswered(404)
    /\ FetchRaised
    /\ out_csv.written
    /\ Len(out_csv.rows) = 4

\* C7: one run requests at most MAX_PAGES distinct pages, whatever the
\* pages hold.
C7_AtMostMaxPages ==
    /\ Cardinality(fetched) <= MAX_PAGES
    /\ fetched \subseteq 1..MAX_PAGES
    /\ page_counter \in 1..MAX_PAGES

\* Every page held events and the range of the page loop was exhausted.
C7_Witness ==
    /\ outcome = "cap"
    /\ fetched = 1..MAX_PAGES
    /\ Len(pages) = MAX_PAGES

\* C8: a page without records is the last page of the run: no page after it
\* is requested, and the records validated on the pages before it are kept
\* and handed to the writer.
C8_EmptyPageEndsPagination ==
    \A n \in 1..Len(pages) :
        pages[n] = <<>> =>
            /\ n = Len(pages)
            /\ page_counter = n
            /\ fetched = 1..n
            /\ Ended
            /\ outcome = "empty"
            /\ validated_events = ValidOf(SubSeq(pages, 1, n - 1), <<>>)
            /\ (pc = "end" /\ out_csv.error = "") => out_csv.rows = validated_events

\* Page 3 held no records; the records of pages 1 and 2 are in the file.
C8_Witness ==
    /\ pc = "end"
    /\ Len(pages) = 3
    /\ pages[3] = <<>>
    /\ out_csv.written
    /\ Len(out_csv.rows) = 4

\* C9: a record that fails normalization or validation makes
\* process_and_validate return None and nothing else: the run never ends
\* with records of a page left unhandled, and what it accumulated is what
\* passes validation on the pages it parsed.
C9_FailedRecordNeverAborts ==
    /\ \A i \in 1..Len(pages) : \A j \in 1..Len(pages[i]) :
           process_and_validate(pages[i][j]).exc = ""
    /\ Ended =>
           /\ events_on_page = <<>>
           /\ validated_events = ValidOf(pages, <<>>)

\* What is left to do: the turns of the page loop, then the place in the
\* turn, then the requests or records left in that place.
Measure ==
    << MAX_PAGES - page_counter,
       CASE pc = "fetch" -> 3 [] pc = "validate" -> 2 [] pc = "finish" -> 1 [] OTHER -> 0,
       CASE pc = "fetch" -> STOP_AFTER_ATTEMPT - Len(attempts)
         [] pc = "validate" -> Len(events_on_page)
         [] OTHER -> 0 >>

LexLess(a, b) ==
    \/ a[1] < b[1]
    \/ a[1] = b[1] /\ a[2] < b[2]
    \/ a[1] = b[1] /\ a[2] = b[2] /\ a[3] < b[3]

\* C10: every run of crawl ends, whatever the answers and the pages: each
\* step lowers a measure that cannot fall below zero, and the run reaches
\* its return.
C10_CrawlTerminates ==
    /\ [](\A i \in 1..3 : Measure[i] \in Nat)
    /\ [][LexLess(Measure', Measure)]_vars
    /\ <>(pc = "end")

\* A run that used every turn of the page loop and returned.
C10_Witness ==
    /\ pc = "end"
    /\ page_counter = MAX_PAGES
    /\ outcome = "cap"

(***************************************************************************)
(* Properties of overlapping ingestion runs (SpecRace).                    *)
(***************************************************************************)
CandidateTitles(r) == {runs[r].candidates[i].title : i \in 1..Len(runs[r].candidates)}

RowsTitled(title) == {i \in 1..Len(events_table) : events_table[i].title = title}

\* C11: when two overlapping runs both check a title that both carry before
\* either inserts it, both find it absent and both insert it: once both are
\* done, two rows of the events table carry the title.
C11_BothRunsInsertTheTitle ==
    \A title \in CandidateTitles(1) \cap CandidateTitles(2) :
        (/\ title \notin runs[1].found
         /\ title \notin runs[2].found
         /\ runs[1].pc = "done"
         /\ runs[2].pc = "done") => Cardinality(RowsTitled(title)) >= 2

\* Both runs carried one record, of the same title, and checked it against
\* the empty table; the table now holds the two rows.
C11_Witness ==
    /\ runs[1].pc = "done"
    /\ runs[2].pc = "done"
    /\ runs[1].found = {}
    /\ runs[2].found = {}
    /\ Len(runs[1].candidates) = 1
    /\ CandidateTitles(1) = CandidateTitles(2)
    /\ Len(events_table) = 2
    /\ events_table[1].title = events_table[2].title

(***************************************************************************)
(* Properties of one call of process_and_validate (SpecValidate).          *)
(***************************************************************************)
Called == validated_event.exc # "idle"

\* The call returned the validated record.
Accepted == validated_event.exc = "" /\ validated_event.val # None

\* The call returned None.
Rejected == validated_event = Ret(None)

\* The raw record is the valid record but for its timestamps.
OnlyDatesDiffer ==
    [raw_event EXCEPT !.start_at = BaseRaw.start_at, !.ends_at = BaseRaw.ends_at] = BaseRaw

IsTimestamp(v) == IsDStr(v) /\ v.s[1] \in {"date", "aware", "naive"}

\* The timestamp EventCreate reads from a raw start (sec = 0) or end.
Normalized(v, sec) == ParseDatetime(OrNone(ExpandDate(v, sec)))

\* C12: a record whose other fields are valid is rejected, by the check of
\* ends_after_start, when its normalized end is not after its normalized
\* start, and accepted when it is.
C12_EndAfterStartDecides ==
    (/\ Called
     /\ OnlyDatesDiffer
     /\ IsTimestamp(raw_event.start_at)
     /\ IsTimestamp(raw_event.ends_at)) =>
        IF Instant(Normalized(raw_event.ends_at, 86399)[2])
               <= Instant(Normalized(raw_event.start_at, 0)[2])
        THEN /\ Rejected
             /\ EndsOrder(Normalized(raw_event.ends_at, 86399),
                          Normalized(raw_event.start_at, 0)) = "ValueError"
        ELSE Accepted

\* The raw record is the valid record but for its title, a str.
OnlyTitleDiffers ==
    /\ [raw_event EXCEPT !.title = BaseRaw.title] = BaseRaw
    /\ IsStr(raw_event.title)

HasAngle(chars) == \E i \in 1..Len(chars) : chars[i] \in {"<", ">"}

\* C13, as stated: every title with "<" or ">" is rejected, and every title
\* of 1 to 100 characters of the allowed class is accepted.
C13_AsStated ==
    (Called /\ OnlyTitleDiffers) =>
        /\ HasAngle(raw_event.title.s) => Rejected
        /\ SAFE_TITLE(raw_event.title.s) => Accepted

\* C13: every title with "<" or ">" is rejected, by title_chars and so by
\* process_and_validate; every title of 1 to 100 characters of the allowed
\* class that is not made of whitespace alone is accepted.
C13_AngleRejectedSafeAccepted ==
    (Called /\ OnlyTitleDiffers) =>
        /\ HasAngle(raw_event.title.s) => Rejected /\ ~TitleField(raw_event.title)[1]
        /\ (SAFE_TITLE(raw_event.title.s) /\ Strip(raw_event.title.s) # <<>>) => Accepted

\* A title of 100 characters of the allowed class was accepted.
C13_Witness ==
    /\ Called
    /\ OnlyTitleDiffers
    /\ SAFE_TITLE(raw_event.title.s)
    /\ Len(raw_event.title.s) = TITLE_MAX
    /\ Accepted
    /\ validated_event.val.title = raw_event.title

\* C14: every title of an accepted record is made of characters of the
\* class of SAFE_TITLE only; a title with a character outside the class is
\* rejected.
C14_AcceptedTitleIsSafe ==
    (Called /\ IsStr(raw_event.title)) =>
        /\ Accepted => SAFE_TITLE(validated_event.val.title.s)
        /\ (\E i \in 1..Len(raw_event.title.s) :
                raw_event.title.s[i] \notin SafeChars \cup {"fi"}) => Rejected

\* C15: no record whose start lies before the current UTC date is accepted.
C15_PastEventNeverAccepted ==
    (Accepted /\ IsStr(raw_event.start_at)) =>
        /\ is_future_event(raw_event.start_at, Today).exc = ""
        /\ is_future_event(raw_event.start_at, Today).val

\* The raw record is the valid record but for its location name and address.
OnlyPlaceDiffers ==
    [raw_event EXCEPT !.location = BaseRaw.location, !.address = BaseRaw.address] = BaseRaw

\* An empty or whitespace-only str
Blank(v) == IsStr(v) /\ Strip(v.s) = <<>>

\* C16: a record whose required fields are valid and whose location name or
\* address is empty or whitespace-only is accepted, with None for that
\* field.
C16_BlankPlaceBecomesNone ==
    (/\ Called
     /\ OnlyPlaceDiffers
     /\ Blank(raw_event.location) \/ Blank(raw_event.address)
     /\ Blank(raw_event.location) \/ raw_event.location = BaseRaw.location
     /\ Blank(raw_event.address) \/ raw_event.address = BaseRaw.address) =>
        /\ Accepted
        /\ Blank(raw_event.location) => validated_event.val.location = None
        /\ Blank(raw_event.address) => validated_event.val.address = None

\* The start and the end of the raw record are the same bare date.
SameBareDate ==
    /\ OnlyDatesDiffer
    /\ IsDStr(raw_event.start_at)
    /\ raw_event.start_at.s[1] = "date"
    /\ raw_event.ends_at = raw_event.start_at

\* C17: a record whose start and end are the same bare date d is accepted,
\* with start d 00:00:00 and end d 23:59:59, both at -08:00, the end after
\* the start.
C17_BareDateSpansItsDay ==
    (Called /\ SameBareDate) =>
        /\ Accepted
        /\ validated_event.val.start_at = DateTime(TRUE, raw_event.start_at.d[1], 0, -28800)
        /\ validated_event.val.ends_at = DateTime(TRUE, raw_event.start_at.d[1], 86399, -28800)
        /\ Instant(validated_event.val.ends_at) > Instant(validated_event.val.start_at)

\* A record of today's bare date was accepted.
C17_Witness ==
    /\ Called
    /\ SameBareDate
    /\ raw_event.start_at.d[1] = Today
    /\ Accepted

\* Text that clean_html and normalize_whitespace leave as it is.
PlainText(v) == IsStr(v) /\ ~IsDStr(v) /\ \A i \in 1..Len(v.s) : v.s[i] \in {"a", "b", "A"}

\* The raw record is the valid record but for its description.
OnlyDescriptionDiffers == [raw_event EXCEPT !.description = BaseRaw.description] = BaseRaw

\* C18: an accepted record has a title of 1 to 100 characters and a
\* description of at most 1000; a description longer than that is cut to
\* its first 1000 characters, a title longer than 100 characters after
\* normalization makes the record rejected.
C18_LengthsWithinLimits ==
    /\ Accepted =>
           /\ StrLen(validated_event.val.title) \in 1..TITLE_MAX
           /\ StrLen(validated_event.val.description) <= DESCRIPTION_MAX
    /\ (/\ Called
        /\ OnlyDescriptionDiffers
        /\ PlainText(raw_event.description)
        /\ Len(raw_event.description.s) > DESCRIPTION_MAX) =>
           /\ Accepted
           /\ validated_event.val.description.s
                  = SubSeq(raw_event.description.s, 1, DESCRIPTION_MAX)
    /\ (/\ Called
        /\ IsStr(raw_event.title)
        /\ Len(normalize_whitespace(raw_event.title).val.s) > TITLE_MAX) => Rejected

\* A description of 1001 characters was cut to 1000 and the record accepted.
C18_Witness ==
    /\ Called
    /\ OnlyDescriptionDiffers
    /\ PlainText(raw_event.description)
    /\ Len(raw_event.description.s) = DESCRIPTION_MAX + 1
    /\ Accepted
    /\ Len(validated_event.val.description.s) = DESCRIPTION_MAX

(***************************************************************************)
(* Properties of one call of parse_listing (SpecParse).                    *)
(***************************************************************************)
ParseCalled == listing # NotParsed

\* A JSON object whose "@type" is "Event"
IsEvent(item) == item.type = Str(<<"Event">>)

\* The Event objects of one block, and of a page, in document order
EventsOf(tag) == IF tag.text \in {"list", "dict"} THEN SelectSeq(tag.items, IsEvent) ELSE <<>>

EventObjects(page) == Concat([k \in 1..Len(page) |-> EventsOf(page[k])], 1, Len(page))

\* C19: parse_listing returns one record for each JSON object of type
\* "Event" of the page, in document order, and no other record.
C19_OneRecordPerEvent ==
    ParseCalled =>
        /\ listing.exc = ""
        /\ Len(listing.rows) = Len(EventObjects(listing_html))
        /\ \A i \in 1..Len(listing.rows) :
               listing.rows[i].title = Get(EventObjects(listing_html)[i].name, EmptyStr)

Malformed(tag) == tag.text = "bad"

\* What parse_listing makes of one block alone
Alone(tag) == parse_listing(<<tag>>, base_url)

\* The page has a block that is no JSON, and each block parses when it is
\* the only one.
MalformedAmongValid(page) ==
    /\ \E k \in 1..Len(page) : Malformed(page[k])
    /\ \A k \in 1..Len(page) : Alone(page[k]).exc = ""

\* C20: a block that is no JSON is skipped without an exception, and the
\* records of every other block of the page, those after it too, are
\* returned.
C20_MalformedBlockIsSkipped ==
    (ParseCalled /\ MalformedAmongValid(listing_html)) =>
        /\ listing.exc = ""
        /\ listing.rows
               = Concat([k \in 1..Len(listing_html) |->
                             IF Malformed(listing_html[k]) THEN <<>>
                             ELSE Alone(listing_html[k]).rows],
                        1, Len(listing_html))

\* A page whose first block is no JSON gave the records of its second.
C20_Witness ==
    /\ ParseCalled
    /\ MalformedAmongValid(listing_html)
    /\ Len(listing_html) = MaxScripts
    /\ Malformed(listing_html[1])
    /\ listing.exc = ""
    /\ listing.rows # <<>>

(***************************************************************************)
(* Properties of the duplicate check (SpecDup).                            *)
(***************************************************************************)
\* The candidate has a title that is a str of at least one character.
HasTitle(event) == event.title.t = "str" /\ event.title.s # <<>>

\* The title of the candidate once trimmed is the title of a stored event.
IsStored(event) ==
    \E i \in 1..Len(events_table) : events_table[i].title.s = Strip(event.title.s)

KeptByFilter(event) == HasTitle(event) /\ ~IsStored(event)

\* C22: filter_duplicate_events returns, in their order, exactly the
\* candidates with a non-empty title that, once trimmed, is the title of no
\* stored event.
C22_UniqueAreTheUnstoredInOrder ==
    \A k \in 1..Len(check_results) :
        check_results[k].unique = SelectSeq(check_events, KeptByFilter)

\* Of " A " and "a", with "A" stored, the second alone was kept.
C22_Witness ==
    /\ check_results # <<>>
    /\ Len(check_events) = 2
    /\ check_events[1].title = Str(<<" ", "A", " ">>)
    /\ RowTitles = <<Str(<<"A">>)>>
    /\ check_results[1].unique = <<check_events[2]>>

Provided(event, inner, value) ==
    IF event.location.t = "dict" /\ (inner.t = "dict" \/ inner = event.location)
    THEN Get(value, EmptyStr) ELSE EmptyStr

\* C28: whatever the JSON type of the location of an Event object,
\* parse_listing does not raise and gives one record with the four flat
\* location fields, each empty when the payload does not provide it.
C28_AnyLocationGivesARecord ==
    ParseCalled =>
        /\ listing.exc = ""
        /\ Len(listing.rows) = Len(EventObjects(listing_html))
        /\ \A i \in 1..Len(listing.rows) :
               /\ listing.rows[i].location
                      = Provided(EventObjects(listing_html)[i],
                                 EventObjects(listing_html)[i].location,
                                 EventObjects(listing_html)[i].loc_name)
               /\ listing.rows[i].address
                      = Provided(EventObjects(listing_html)[i],
                                 EventObjects(listing_html)[i].location,
                                 EventObjects(listing_html)[i].loc_address)
               /\ listing.rows[i].latitude
                      = Provided(EventObjects(listing_html)[i],
                                 EventObjects(listing_html)[i].geo,
                                 EventObjects(listing_html)[i].geo_lat)
               /\ listing.rows[i].longitude
                      = Provided(EventObjects(listing_html)[i],
                                 EventObjects(listing_html)[i].geo,
                                 EventObjects(listing_html)[i].geo_lon)

(***************************************************************************)
(* Properties of one run of crawl (SpecCrawl), continued.                  *)
(***************************************************************************)
\* The call of fetch_html for the current page failed for good: every
\* request met a connection error, or the last was answered with an HTTP
\* error status other than 404.
FatalFetch ==
    /\ FetchRaised
    /\ \/ AllConnectionErrors
       \/ attempts[Len(attempts)].k = "ok" /\ attempts[Len(attempts)].code \notin {200, 404}

\* C29: when the fetch of a page after the first fails for good, no further
\* page is requested, and the records validated on the pages before it are
\* all kept and written to the output.
C29_FatalFetchKeepsEarlierRecords ==
    (page_counter > 1 /\ FatalFetch) =>
        /\ Ended
        /\ fetched = 1..page_counter
        /\ Len(pages) = page_counter - 1
        /\ validated_events = ValidOf(pages, <<>>)
        /\ (pc = "end" /\ out_csv.error = "") =>
               /\ out_csv.rows = validated_events
               /\ validated_events # <<>> => out_csv.written

\* Page 2 met connection errors only and the records of page 1 are written.
C29_Witness ==
    /\ pc = "end"
    /\ page_counter = 2
    /\ FatalFetch
    /\ AllConnectionErrors
    /\ Len(attempts) = STOP_AFTER_ATTEMPT
    /\ out_csv.written
    /\ out_csv.rows = ValidOf(pages, <<>>)
    /\ out_csv.rows # <<>>

(***************************************************************************)
(* Properties of the web API (SpecApi).  A step of SpecApi serves one      *)
(* request: request' is the request, response' its answer, the unprimed    *)
(* tables are those the request found.                                     *)
(***************************************************************************)
Authenticated == request'.token.kind = "valid"

\* The row of the event the request names, as the request found it
Named == events_table[IndexOf(Db, request'.event_id)]

NamesAnEvent == request'.event_id \in EventIds(Db)

\* C24: an event is created only by a request with a valid token of a user
\* whose stored role is coordinator or admin; without a token the answer is
\* 401, for a user of role user it is 403, and no event is added.
C24_CreateNeedsTokenAndRole ==
    [][request'.op = "create" =>
           /\ events_table' # events_table =>
                  Authenticated /\ users'[request'.token.sub] \in {"coordinator", "admin"}
           /\ request'.token.kind = "none" =>
                  response'.status = 401 /\ events_table' = events_table
           /\ (Authenticated /\ users'[request'.token.sub] = "user") =>
                  response'.status = 403 /\ events_table' = events_table]_vars

\* The requester created the named event or is an admin.
CreatorOrAdmin ==
    \/ Named.created_by = {request'.token.sub}
    \/ users'[request'.token.sub] = "admin"

\* C25: update and delete of an event are allowed to its creator and to an
\* admin (whoever created the event, nobody included) and to them only;
\* another requester gets 403 and the event stays as it is.
C25_CreatorOrAdminOnly ==
    [][(request'.op \in {"update", "delete"} /\ Authenticated /\ NamesAnEvent) =>
           /\ CreatorOrAdmin =>
                  /\ response'.status # 403
                  /\ request'.op = "delete" => response'.status = 200
           /\ ~CreatorOrAdmin =>
                  /\ response'.status = 403
                  /\ events_table' = events_table]_vars

\* The number of user_events rows of a user and an event
Relations(table, user_id, event_id) ==
    Cardinality({i \in 1..Len(table) : table[i] = [user_id |-> user_id, event_id |-> event_id]})

\* The request is a save or an unsave of this user for this event.
Concerns(user_id, event_id) ==
    /\ request'.op \in {"save", "unsave"}
    /\ Authenticated
    /\ request'.token.sub = user_id
    /\ request'.event_id = event_id

\* C26: a save of an existing event leaves exactly one relation of the user
\* and the event, an unsave leaves none and reports saved = false, having
\* changed nothing when there was none; nothing else but the deletion of the
\* event touches the relation, so that the event is saved if and only if
\* the last of the saves and unsaves was a save.
C26_SavedIffLastWasSave ==
    /\ [](\A i \in 1..Len(user_events) :
              Relations(user_events, user_events[i].user_id, user_events[i].event_id) = 1)
    /\ [][/\ (request'.op = "save" /\ Authenticated /\ NamesAnEvent) =>
                 /\ response' = [status |-> 200, saved |-> TRUE]
                 /\ Relations(user_events', request'.token.sub, request'.event_id) = 1
          /\ (request'.op = "unsave" /\ Authenticated) =>
                 /\ response' = [status |-> 200, saved |-> FALSE]
                 /\ Relations(user_events', request'.token.sub, request'.event_id) = 0
                 /\ Relations(user_events, request'.token.sub, request'.event_id) = 0 =>
                        user_events' = user_events
          /\ \A u \in UserIds, e \in SomeEventIds :
                 (~Concerns(u, e) /\ e \in EventIds(Db) /\ request'.op # "delete") =>
                     Relations(user_events', u, e) = Relations(user_events, u, e)]_vars

\* The first user saved the second event, already saved, and one relation
\* is kept.
C26_Witness ==
    /\ requests_made = MaxRequests
    /\ request.op = "save"
    /\ request.token.sub = 1
    /\ request.event_id = 2
    /\ response = [status |-> 200, saved |-> TRUE]
    /\ user_events = <<[user_id |-> 1, event_id |-> 2]>>

\* C27: every row of events ends after it starts; a create or an update
\* changes the rows only when it is answered with success, and one answered
\* with an error leaves them as they were.
C27_EndAfterStartPersisted ==
    /\ [](\A i \in 1..Len(events_table) : events_table[i].end_time > events_table[i].start_time)
    /\ [][request'.op \in {"create", "update"} =>
              /\ response'.status >= 400 => events_table' = events_table
              /\ events_table' # events_table => response'.status \in {200, 201}
              /\ (request'.op = "create" /\ response'.status = 201) =>
                     /\ Len(events_table') = Len(events_table) + 1
                     /\ SubSeq(events_table', 1, Len(events_table)) = events_table]_vars

\* The creator moved the end of an event to its start hour and was refused.
C27_Witness ==
    /\ request.op = "update"
    /\ request.token.sub = 1
    /\ request.event_id = 2
    /\ request.data.end_time = Time(9)
    /\ response.status = 400
    /\ events_table = SeededEvents

\* C30: a stored role changes only by set_role asked by a user whose stored
\* role is admin; a row made at the first request of an account is admin
\* when the email is in ADMIN_EMAILS and user otherwise, whatever role the
\* token claims.
C30_RoleChangesOnlyBySetRole ==
    [][\A u \in UserIds :
           users'[u] # users[u] =>
               IF users[u] = "absent"
               THEN /\ Authenticated
                    /\ request'.token.sub = u
                    /\ users'[u] = IF request'.token.email \in ADMIN_EMAILS THEN "admin" ELSE "user"
               ELSE /\ request'.op = "set_role"
                    /\ request'.user_id = u
                    /\ Authenticated
                    /\ users[request'.token.sub] = "admin"
                    /\ users'[u] = request'.role]_vars

\* The second account, whose token claims the role admin, got its row with
\* role user, and an admin then made it a coordinator.
C30_Witness ==
    /\ request.op = "set_role"
    /\ request.token.sub = 3
    /\ request.user_id = 2
    /\ request.role = "coordinator"
    /\ response.status = 200
    /\ users[2] = "coordinator"

=============================================================================
